---------------------------- MODULE Spec2Model ----------------------------
(***************************************************************************)
(* A model of the inspector proxy server (src/server/src/logger.ts, which  *)
(* holds the Logger class followed by the proxy's express application):    *)
(* the origin and auth middlewares, the route table, the session tables    *)
(* (webAppTransports, serverTransports, sessionHeaderHolders), the session *)
(* creation and teardown handlers, and the server log.                     *)
(*                                                                         *)
(* Strings whose content the code inspects are sequences of one-character  *)
(* strings; opaque strings (origins, route names) are TLA+ strings.        *)
(***************************************************************************)
EXTENDS Integers, Sequences, FiniteSets, TLC

(***************************************************************************)
(* Bounds of the model.                                                    *)
(***************************************************************************)
\* Connections (creation requests that reached their handler) per run.
MaxConns == 2
\* Connections in the runs that send every x-mcp-proxy-auth value.
MaxAuthConns == 1

\* DELETE /mcp requests awaiting terminateSession() at one time.
MaxPendingDeletes == 2
\* Messages the transports receive per run, both directions together.
MaxRelayMsgs == 2
\* Notifications kept per browser-facing transport.
MaxOut == 1
\* Entries of the server log written by requests (after the start-up lines).
MaxLog == 1
\* Chunks of stderr the listener is followed for.
MaxStderrOut == 1
\* Header lines of a request whose projection is followed.
MaxRawHeaders == 3
\* Requests of one session whose message has not been forwarded yet.
MaxWaiting == 2

VARIABLES
    authDisabled,          \* const authDisabled (line 317)
    webAppTransports,      \* Map sessionId -> browser-facing transport (line 310)
    serverTransports,      \* Map sessionId -> upstream transport (line 311)
    sessionHeaderHolders,  \* Map sessionId -> header holder (line 312)
    conns,                 \* the pairs of transports created so far, in creation order
    generated,             \* the values randomUUID() has returned so far
    pendingDeletes,        \* per session id, the DELETE /mcp handlers awaiting terminateSession()
    listening,             \* whether the "listening" event has fired
    serverLog,             \* the entries written through Logger.log (console and log file)
    gateReq,               \* the request express is dispatching, or NoReq
    gatePos,               \* how many elements of the route's chain have run
    gateTrace,             \* what ran for gateReq, in order
    gateRes,               \* the response written for gateReq, or NoRes
    bagHolder,             \* one session's header holder, the update running on it, and
                           \* the requests whose message awaits forwarding
    upstreamCall,          \* the last outbound call of that session's upstream transport
    stderrOut,             \* one stdio session's stderr chunks and their notifications
    relayLog,              \* what the sessions' transports received and were sent
    projection,            \* a request's headers and what getHttpHeaders returned for them
    spawnEnv               \* the environment composed for a child process, and its sources

sessionVars == <<webAppTransports, serverTransports, sessionHeaderHolders,
                 conns, generated, pendingDeletes>>
gateVars == <<listening, serverLog, gateReq, gatePos, gateTrace, gateRes>>
bagVars == <<bagHolder, upstreamCall>>
pureVars == <<projection, spawnEnv>>
auxVars == <<bagVars, stderrOut, relayLog, pureVars>>
vars == <<authDisabled, sessionVars, gateVars, auxVars>>

(***************************************************************************)
(* Strings.                                                                *)
(***************************************************************************)
\* "Bearer " (line 368)
BearerPrefix == <<"B", "e", "a", "r", "e", "r", " ">>

\* String.prototype.startsWith
StartsWith(s, p) == Len(s) >= Len(p) /\ SubSeq(s, 1, Len(p)) = p

\* String.prototype.substring(n)
Substring(s, n) == SubSeq(s, n + 1, Len(s))

\* The UTF-8 bytes of one character: Buffer.from encodes a string as UTF-8, so
\* a character outside ASCII takes more than one byte.
Utf8Char(c) == IF c = "U+00E9" THEN <<"C3", "A9">> ELSE <<c>>

RECURSIVE BufferFrom(_)
\* Buffer.from(string) (lines 377-378)
BufferFrom(s) ==
    IF s = <<>> THEN <<>> ELSE Utf8Char(Head(s)) \o BufferFrom(Tail(s))

\* crypto.timingSafeEqual: the buffers have the same length (it throws
\* otherwise) and every byte pair is compared, whatever the earlier ones gave.
timingSafeEqual(a, b) == \A i \in 1..Len(a) : a[i] = b[i]

\* The process secret (line 315): MCP_PROXY_AUTH_TOKEN or random hex.
sessionToken == <<"a", "b">>

(***************************************************************************)
(* Header values as express gives them: absent, a string, or an array of   *)
(* strings.                                                                *)
(***************************************************************************)
Absent == [kind |-> "absent"]
Str(s) == [kind |-> "string", v |-> s]
Arr(a) == [kind |-> "array", v |-> a]

\* The x-mcp-proxy-auth values requests are sent with.  Node joins the values
\* of a repeated header of this name into one string, so no request carries
\* an array here.
AuthHeaders ==
    { Absent,
      Str(<<>>),
      Str(BearerPrefix \o sessionToken),
      Str(BearerPrefix \o <<"a">>),
      Str(BearerPrefix \o <<"a", "b", "b">>),
      Str(BearerPrefix \o <<"a", "a">>),
      Str(BearerPrefix \o <<"b", "b">>),
      Str(BearerPrefix \o <<"U+00E9">>),
      Str(BearerPrefix),
      Str(<<"b", "e", "a", "r", "e", "r", " ">> \o sessionToken),
      Str(sessionToken) }

\* The header a client holding the secret sends.
ValidAuth == Str(BearerPrefix \o sessionToken)

\* process.env.CLIENT_PORT || "6274" (line 328)
DefaultOrigin == "http://localhost:6274"

\* allowedOrigins (lines 330-332) with ALLOWED_ORIGINS unset
allowedOrigins == {DefaultOrigin}

\* The Origin values requests are sent with (Absent, or a string).
Origins == {Absent, Str(""), Str(DefaultOrigin), Str("http://evil.example")}

(***************************************************************************)
(* The middlewares.  Each returns what it did: whether it called next(),   *)
(* the status it answered with otherwise, and for authMiddleware the       *)
(* return statement it left by.                                            *)
(***************************************************************************)
\* An origin check that lets every request through.
originValidationMiddlewareAllowAll(origin) == [next |-> TRUE, status |-> 0]

\* originValidationMiddleware (lines 320-344)
originValidationMiddleware(origin) ==
    IF /\ origin.kind = "string"
       /\ origin.v # ""
       /\ origin.v \notin allowedOrigins
    THEN [next |-> FALSE, status |-> 403]
    ELSE [next |-> TRUE, status |-> 0]

\* authMiddleware without its comparison: any candidate of the secret's
\* length is let through.
authMiddlewareLengthOnly(disabled, authHeader) ==
    IF disabled THEN [next |-> TRUE, status |-> 0, path |-> "disabled"]
    ELSE IF \/ authHeader.kind # "string"
            \/ authHeader.v = <<>>
            \/ ~StartsWith(authHeader.v, BearerPrefix)
    THEN [next |-> FALSE, status |-> 401, path |-> "malformed"]
    ELSE IF Len(BufferFrom(Substring(authHeader.v, 7))) # Len(BufferFrom(sessionToken))
    THEN [next |-> FALSE, status |-> 401, path |-> "length"]
    ELSE [next |-> TRUE, status |-> 0, path |-> "compared"]

\* authMiddleware (lines 346-393)
authMiddleware(disabled, authHeader) ==
    IF disabled THEN [next |-> TRUE, status |-> 0, path |-> "disabled"]
    ELSE
    LET authHeaderValue ==
            IF authHeader.kind = "array" THEN Str(authHeader.v[1]) ELSE authHeader
    IN  IF \/ authHeaderValue.kind = "absent"
           \/ authHeaderValue.v = <<>>
           \/ ~StartsWith(authHeaderValue.v, BearerPrefix)
        THEN [next |-> FALSE, status |-> 401, path |-> "malformed"]
        ELSE
        LET providedBuffer == BufferFrom(Substring(authHeaderValue.v, 7))
            expectedBuffer == BufferFrom(sessionToken)
        IN  IF Len(providedBuffer) # Len(expectedBuffer)
            THEN [next |-> FALSE, status |-> 401, path |-> "length"]
            ELSE IF ~timingSafeEqual(providedBuffer, expectedBuffer)
            THEN [next |-> FALSE, status |-> 401, path |-> "compared"]
            ELSE [next |-> TRUE, status |-> 0, path |-> "compared"]

(***************************************************************************)
(* The route table: every app.<method>(path, ...chain) of the file, with   *)
(* the elements of its chain in registration order.  "origin" is           *)
(* originValidationMiddleware, "auth" is authMiddleware, "json" is         *)
(* express.json(), "handler" is the route's own function.                  *)
(***************************************************************************)
Guarded == <<"origin", "auth", "handler">>

\* The six routes that create, use or end a session (lines 492-831).
SessionRoutes ==
    {"GET /mcp", "POST /mcp", "DELETE /mcp", "GET /stdio", "GET /sse",
     "POST /message"}

RouteChain ==
    [r \in SessionRoutes |-> Guarded] @@
    ( "GET /health"                   :> <<"handler">> @@
      "GET /fetch-json"               :> Guarded @@
      "GET /mcp-config"               :> Guarded @@
      "GET /config"                   :> Guarded @@
      "GET /servers"                  :> <<"origin", "handler">> @@
      "GET /servers/:serverName/tools" :> <<"origin", "handler">> @@
      "POST /update-mcp-config"       :> <<"origin", "auth", "json", "handler">> @@
      "POST /execute-tool"            :> <<"origin", "json", "handler">> @@
      "GET /logs"                     :> Guarded @@
      "GET /logs/current"             :> <<"handler">> @@
      "GET /logs/:filename"           :> <<"handler">> @@
      "DELETE /logs/cleanup"          :> Guarded @@
      "POST /logs/test"               :> <<"origin", "auth", "json", "handler">> )

Routes == DOMAIN RouteChain

\* What express does with a request before the route's handler: the chain's
\* middlewares run in order until one answers instead of calling next().
\* by: what answered ("origin", "auth") or "handler" when the handler runs;
\* authPath: the return statement authMiddleware left by, "none" if it did
\* not run.
RECURSIVE RunChain(_, _, _, _, _)
RunChain(chain, i, disabled, origin, authHeader) ==
    IF chain[i] = "origin"
    THEN LET o == originValidationMiddleware(origin)
         IN  IF o.next THEN RunChain(chain, i + 1, disabled, origin, authHeader)
             ELSE [by |-> "origin", status |-> o.status, authPath |-> "none"]
    ELSE IF chain[i] = "auth"
    THEN LET a == authMiddleware(disabled, authHeader)
         IN  IF a.next
             THEN [RunChain(chain, i + 1, disabled, origin, authHeader)
                     EXCEPT !.authPath = a.path]
             ELSE [by |-> "auth", status |-> a.status, authPath |-> a.path]
    ELSE IF chain[i] = "json"
    THEN RunChain(chain, i + 1, disabled, origin, authHeader)
    ELSE [by |-> "handler", status |-> 0, authPath |-> "none"]

Gate(route, disabled, origin, authHeader) ==
    RunChain(RouteChain[route], 1, disabled, origin, authHeader)

(***************************************************************************)
(* The server log.  Logger.log (lines 47-59) writes every entry to the     *)
(* console and appends it to the log file that GET /logs/current and       *)
(* GET /logs/:filename read.  An entry is its level and its message, the   *)
(* message a sequence of fragments: literal text of the code, or a value   *)
(* interpolated into it.                                                   *)
(***************************************************************************)
Lit(t) == [k |-> "lit", v |-> t]
Val(x) == [k |-> "val", v |-> x]

\* Logger.log through Logger.info / warn / error / debug
LoggerLog(log, level, message) == Append(log, [level |-> level, message |-> message])

\* Whether an entry shows the value x.
Shows(entry, x) ==
    \E i \in 1..Len(entry.message) :
        entry.message[i].k = "val" /\ entry.message[i].v = x

\* server.on("listening") (lines 1524-1536)
ListeningLog(disabled) ==
    LET l1 == LoggerLog(<<>>, "info", <<Lit("Proxy server listening on "), Lit("HOST:PORT")>>)
    IN  IF ~disabled
        THEN LoggerLog(l1, "info",
                       <<Lit("Session token: "), Val(sessionToken),
                         Lit("Use this token to authenticate requests")>>)
        ELSE LoggerLog(l1, "warn", <<Lit("WARNING: Authentication is disabled.")>>)

\* Text a client puts into a request (a session id header, a query, a body).
Texts == {<<"h", "i">>, sessionToken}

NoReq == [route |-> "none"]
NoRes == [by |-> "none"]

\* Whether a route's handler writes to the log through logger.*.
LogsText(route) ==
    route \in {"GET /stdio", "GET /sse", "POST /mcp", "GET /mcp", "POST /logs/test"}

\* What a route's handler writes to the log through logger.*, if anything:
\* createTransport (line 428), GET /mcp (line 498), POST /logs/test
\* (lines 1482-1499).  The other handlers use console.* only.
HandlerLog(log, route, text) ==
    IF route \in {"GET /stdio", "GET /sse", "POST /mcp"}
    THEN LoggerLog(log, "info", <<Lit("Query parameters:"), Val(text)>>)
    ELSE IF route = "GET /mcp"
    THEN LoggerLog(log, "info", <<Lit("Received GET message for sessionId "), Val(text)>>)
    ELSE IF route = "POST /logs/test"
    THEN LoggerLog(log, "info", <<Val(text)>>)
    ELSE log

\* The body a handler answers with, as far as the log is concerned: the log
\* routes return the log file's content (lines 1374-1399, 1415-1440).
HandlerBody(log, route) ==
    IF route \in {"GET /logs/current", "GET /logs/:filename"} THEN log ELSE <<>>

\* The upstream transports a route's handler can construct, "none" when it
\* returns or throws before constructing one: the creation routes through
\* createTransport (lines 442, 462, 477), GET /servers/:serverName/tools
\* (lines 1104, 1113, 1124) and POST /execute-tool (lines 1275, 1284, 1295)
\* from the server's entry in the configuration file.
HandlerTransports(route) ==
    IF route \in {"GET /stdio", "GET /sse", "POST /mcp",
                  "GET /servers/:serverName/tools", "POST /execute-tool"}
    THEN {"none", "stdio", "sse", "streamable-http"}
    ELSE {"none"}

Listening ==
    /\ ~listening
    /\ listening' = TRUE
    /\ serverLog' = ListeningLog(authDisabled)
    /\ UNCHANGED <<authDisabled, sessionVars, auxVars, gateReq, gatePos, gateTrace, gateRes>>

\* A request arrives and express selects its route.
GateArrive(route, origin, authHeader, text) ==
    /\ listening
    /\ gateReq = NoReq
    /\ LogsText(route) => Len(serverLog) < Len(ListeningLog(authDisabled)) + MaxLog
    /\ gateReq' = [route |-> route, origin |-> origin, auth |-> authHeader,
                   text |-> text]
    /\ gatePos' = 0
    /\ gateTrace' = <<>>
    /\ gateRes' = NoRes
    /\ UNCHANGED <<authDisabled, sessionVars, auxVars, listening, serverLog>>

\* The next element of the route's chain runs.
GateOrigin ==
    /\ gateReq # NoReq /\ gateRes = NoRes
    /\ RouteChain[gateReq.route][gatePos + 1] = "origin"
    /\ LET o == originValidationMiddleware(gateReq.origin)
       IN  /\ gateTrace' = Append(gateTrace, "origin")
           /\ gatePos' = gatePos + 1
           /\ gateRes' = IF o.next THEN NoRes
                         ELSE [by |-> "origin", status |-> o.status, body |-> <<>>]
    /\ UNCHANGED <<authDisabled, sessionVars, auxVars, listening, serverLog, gateReq>>

GateAuth ==
    /\ gateReq # NoReq /\ gateRes = NoRes
    /\ RouteChain[gateReq.route][gatePos + 1] = "auth"
    /\ LET a == authMiddleware(authDisabled, gateReq.auth)
       IN  /\ gateTrace' = Append(gateTrace, "auth:" \o a.path)
           /\ gatePos' = gatePos + 1
           /\ gateRes' = IF a.next THEN NoRes
                         ELSE [by |-> "auth", status |-> a.status, body |-> <<>>]
    /\ UNCHANGED <<authDisabled, sessionVars, auxVars, listening, serverLog, gateReq>>

GateJson ==
    /\ gateReq # NoReq /\ gateRes = NoRes
    /\ RouteChain[gateReq.route][gatePos + 1] = "json"
    /\ gateTrace' = Append(gateTrace, "json")
    /\ gatePos' = gatePos + 1
    /\ UNCHANGED <<authDisabled, sessionVars, auxVars, listening, serverLog, gateReq, gateRes>>

\* The route's handler runs.  Here only what it logs, what it returns of
\* the log and the upstream transport it constructs, if any, is kept; what
\* the session handlers do to the sessions, and the
\* status they answer with, is in the actions of Spec.
GateHandler ==
    /\ gateReq # NoReq /\ gateRes = NoRes
    /\ RouteChain[gateReq.route][gatePos + 1] = "handler"
    /\ gateTrace' = Append(gateTrace, "handler")
    /\ gatePos' = gatePos + 1
    /\ serverLog' = HandlerLog(serverLog, gateReq.route, gateReq.text)
    /\ \E transport \in HandlerTransports(gateReq.route) :
          gateRes' = [by |-> "handler", body |-> HandlerBody(serverLog, gateReq.route),
                      transport |-> transport]
    /\ UNCHANGED <<authDisabled, sessionVars, auxVars, listening, gateReq>>

\* The request is answered and over.
GateDone ==
    /\ gateRes # NoRes
    /\ gateReq' = NoReq
    /\ gatePos' = 0
    /\ gateTrace' = <<>>
    /\ gateRes' = NoRes
    /\ UNCHANGED <<authDisabled, sessionVars, auxVars, listening, serverLog>>

(***************************************************************************)
(* Forwardable headers.  A request's headers are a function from the       *)
(* lower-cased names node gives them to Str/Arr values; a header set built *)
(* by the proxy is a function from names to strings.                       *)
(***************************************************************************)
\* String.prototype.toLowerCase on the header names used here.
ToLowerCase(name) ==
    CASE name = "X-Api-Key" -> "x-api-key"
      [] name = "X-MCP-Proxy-Auth" -> "x-mcp-proxy-auth"
      [] name = "Accept" -> "accept"
      [] name = "Authorization" -> "authorization"
      [] name = "Set-Cookie" -> "set-cookie"
      [] OTHER -> name

\* lowerKey.startsWith("mcp-") (line 213) on the header names used here.
StartsWithMcp(name) == name \in {"mcp-protocol-version", "mcp-session-id"}

\* JSON.parse of the x-custom-auth-headers texts used here (lines 257-259):
\* the parsed value, or that parsing throws.
JsonParse(text) ==
    CASE text = "[\"X-Api-Key\"]" -> [ok |-> TRUE, array |-> TRUE, v |-> <<"X-Api-Key">>]
      [] text = "[\"X-Api-Key\",\"X-MCP-Proxy-Auth\"]" ->
            [ok |-> TRUE, array |-> TRUE, v |-> <<"X-Api-Key", "X-MCP-Proxy-Auth">>]
      [] text = "\"X-Api-Key\"" -> [ok |-> TRUE, array |-> FALSE, v |-> <<>>]
      [] OTHER -> [ok |-> FALSE, array |-> FALSE, v |-> <<>>]

\* headers[key] = value
Put(headers, key, value) ==
    [k \in DOMAIN headers \cup {key} |-> IF k = key THEN value ELSE headers[k]]

\* The last element of an array value, the string itself otherwise
\* (lines 221-230, 243-251, 265-267).
LastValue(value) == IF value.kind = "array" THEN value.v[Len(value.v)] ELSE value.v

RECURSIVE PutNamed(_, _, _)
\* customHeaderNames.forEach (lines 261-269)
PutNamed(headers, reqHeaders, names) ==
    IF names = <<>> THEN headers
    ELSE LET headerName == Head(names)
             lowerCaseHeaderName == ToLowerCase(headerName)
             next == IF lowerCaseHeaderName \in DOMAIN reqHeaders
                     THEN Put(headers, headerName,
                              LastValue(reqHeaders[lowerCaseHeaderName]))
                     ELSE headers
         IN  PutNamed(next, reqHeaders, Tail(names))

\* getHttpHeaders (lines 204-276)
getHttpHeaders(reqHeaders) ==
    LET forwarded ==
            { key \in DOMAIN reqHeaders :
                /\ \/ StartsWithMcp(key)
                   \/ key = "authorization"
                   \/ key = "last-event-id"
                /\ key # "x-mcp-proxy-auth" /\ key # "mcp-session-id"
                /\ reqHeaders[key].kind = "array" => reqHeaders[key].v # <<>> }
        h1 == [key \in forwarded |-> LastValue(reqHeaders[key])]
        customAuthHeaderName ==
            IF "x-custom-auth-header" \in DOMAIN reqHeaders
            THEN reqHeaders["x-custom-auth-header"] ELSE Absent
        h2 == IF /\ customAuthHeaderName.kind = "string"
                 /\ ToLowerCase(customAuthHeaderName.v) \in DOMAIN reqHeaders
                 /\ LET value == reqHeaders[ToLowerCase(customAuthHeaderName.v)]
                    IN  value.kind = "array" => value.v # <<>>
              THEN Put(h1, customAuthHeaderName.v,
                       LastValue(reqHeaders[ToLowerCase(customAuthHeaderName.v)]))
              ELSE h1
        parsed ==
            IF "x-custom-auth-headers" \in DOMAIN reqHeaders
            THEN JsonParse(LastValue(reqHeaders["x-custom-auth-headers"]))
            ELSE [ok |-> FALSE, array |-> FALSE, v |-> <<>>]
    IN  IF parsed.ok /\ parsed.array THEN PutNamed(h2, reqHeaders, parsed.v) ELSE h2

\* The statements of updateHeadersInPlace, each as what it makes of the
\* object's content.
\* const accept = currentHeaders["Accept"] (line 291); "" for undefined,
\* both falsy.
captureAccept(currentHeaders) ==
    IF "Accept" \in DOMAIN currentHeaders THEN currentHeaders["Accept"] ELSE ""

\* An update that keeps the old entries.
clearHeadersKeep(currentHeaders) == currentHeaders

\* Object.keys(currentHeaders).forEach(delete) (line 294)
clearHeaders(currentHeaders) == [k \in {} |-> ""]

\* Object.assign(currentHeaders, newHeaders) (line 295)
assignHeaders(currentHeaders, newHeaders) ==
    [k \in DOMAIN currentHeaders \cup DOMAIN newHeaders |->
        IF k \in DOMAIN newHeaders THEN newHeaders[k] ELSE currentHeaders[k]]

\* if (accept) currentHeaders["Accept"] = accept (lines 298-300)
restoreAccept(currentHeaders, accept) ==
    IF accept # "" THEN Put(currentHeaders, "Accept", accept) ELSE currentHeaders

\* updateHeadersInPlace (lines 285-301): the content of currentHeaders after
\* the call.  An Accept of "" is not restored (if (accept)).
updateHeadersInPlace(currentHeaders, newHeaders) ==
    restoreAccept(assignHeaders(clearHeaders(currentHeaders), newHeaders),
                  captureAccept(currentHeaders))

\* The headers the requests of the session routes are sent with, besides
\* Origin and x-mcp-proxy-auth.
ReqHeaderSets ==
    { [k \in {} |-> Absent],
      [k \in {"authorization"} |-> Str("Bearer upstream-1")] }

(***************************************************************************)
(* Sessions.  A connection is the pair of transports one creation request  *)
(* builds: the upstream ("server") transport made by createTransport and   *)
(* the browser-facing ("web app") transport made by the route.  The three  *)
(* tables map a session id to the connection whose transport (or header    *)
(* holder) they hold a reference to.                                       *)
(***************************************************************************)
Ids == 1..MaxConns
NoSid == 0
TransportTypes == {"stdio", "sse", "streamable-http"}
CreateRoutes == {"GET /stdio", "GET /sse", "POST /mcp"}

\* The Origin and x-mcp-proxy-auth values the session requests are sent with.
SessOrigins == {Str(DefaultOrigin), Str("http://evil.example")}
SessAuths == {Absent, ValidAuth, Str(BearerPrefix \o <<"a", "a">>)}

\* The query of a creation request: its transportType, and whether the
\* other parameters createTransport reads are usable (a command to trim,
\* an env that parses, a url the URL constructor takes).
Queries ==
    [transportType : TransportTypes, paramsOk : {TRUE}] \cup
    { [transportType |-> "bogus", paramsOk |-> TRUE],
      [transportType |-> "sse", paramsOk |-> FALSE] }

\* A response: what wrote it ("origin", "auth", or the route's "handler"),
\* its status (0: none), and how many times the code wrote or ended the
\* response.  Pending: the handler is awaiting and has not answered yet.
NoResp == [by |-> "none", status |-> 0, writes |-> 0]
Pending == [by |-> "handler", status |-> 0, writes |-> -1]
Resp(by, status, writes) == [by |-> by, status |-> status, writes |-> writes]

NoHolder == [present |-> FALSE, headers |-> [k \in {} |-> ""]]

\* A generator that may return a value again.
randomUUIDRepeating == Ids

\* crypto.randomUUID: the values a call may return, none returned before.
randomUUID == Ids \ generated

\* A createTransport that builds a holder whatever the transport type.
createTransportHolderForAll(transportType, reqHeaders) ==
    [present |-> TRUE,
     headers |-> Put(getHttpHeaders(reqHeaders), "Accept", "text/event-stream")]

\* The header holder createTransport builds (lines 454-456, 473-475).
createTransportHolder(transportType, reqHeaders) ==
    IF transportType = "sse"
    THEN [present |-> TRUE,
          headers |-> Put(getHttpHeaders(reqHeaders), "Accept", "text/event-stream")]
    ELSE IF transportType = "streamable-http"
    THEN [present |-> TRUE,
          headers |-> Put(getHttpHeaders(reqHeaders), "Accept",
                          "text/event-stream, application/json")]
    ELSE NoHolder

\* Transport.close() of the upstream transport; a StdioClientTransport
\* kills its child process.
closeServer(cn) ==
    [cn EXCEPT !.server = "closed",
               !.child = IF @ = "running" THEN "exited" ELSE @]

\* Transport.close() of the browser-facing transport.
closeWeb(cn) == [cn EXCEPT !.web = IF @ = "open" THEN "closed" ELSE @]

\* mcpProxy: the onclose it sets on the browser-facing transport closes the
\* upstream transport, and the other way round.  It is handed the two
\* transports only (lines 584-587, 730-733, 776-779).
mcpProxyOnClientClose(cn) == IF cn.relay THEN closeServer(cn) ELSE cn
mcpProxyOnServerClose(cn) == IF cn.relay THEN closeWeb(cn) ELSE cn

\* A send that writes whether or not the transport is connected.
sendWebUnchecked(cn, message) == [cn EXCEPT !.out = Append(@, message)]

\* Transport.send() of the browser-facing transport: it rejects when the
\* transport is not connected.
sendWeb(cn, message) ==
    IF cn.web = "open" THEN [cn EXCEPT !.out = Append(@, message)] ELSE cn

\* Map.prototype.set and Map.prototype.delete
MapSet(map, key, value) ==
    [k \in DOMAIN map \cup {key} |-> IF k = key THEN value ELSE map[k]]
MapDelete(map, key) == [k \in DOMAIN map \ {key} |-> map[k]]

EmptyMap == [k \in {} |-> 0]

\* No update of the header holder has run yet / is running.
IdleJob == [pc |-> "idle", done |-> FALSE, accept |-> "",
            newHeaders |-> [k \in {} |-> ""], before |-> [k \in {} |-> ""]]

NoBag == [created |-> FALSE, route |-> "none", starts |-> 0,
          holder |-> NoHolder, job |-> IdleJob, waiting |-> <<>>]
NoCall == [made |-> FALSE]

\* Nothing received and nothing forwarded yet on a connection.
NoProjection == [made |-> FALSE]
NoSpawn == [made |-> FALSE]
NoRelayLog == [fromWeb |-> <<>>, toServer |-> <<>>, fromServer |-> <<>>]

Init ==
    /\ authDisabled \in BOOLEAN
    /\ webAppTransports = EmptyMap
    /\ serverTransports = EmptyMap
    /\ sessionHeaderHolders = EmptyMap
    /\ conns = <<>>
    /\ generated = {}
    /\ pendingDeletes = [sid \in Ids |-> 0]
    /\ listening = FALSE
    /\ serverLog = <<>>
    /\ gateReq = NoReq
    /\ gatePos = 0
    /\ gateTrace = <<>>
    /\ gateRes = NoRes
    /\ bagHolder = NoBag
    /\ upstreamCall = NoCall
    /\ stderrOut = <<>>
    /\ relayLog = [c \in 1..MaxConns |-> NoRelayLog]
    /\ projection = NoProjection
    /\ spawnEnv = NoSpawn

ConnIds == 1..Len(conns)

\* The catch blocks of the creation routes: the response to an error thrown
\* by createTransport or after it (lines 594-605, 734-744, 780-799).
CatchCreate(route, err) ==
    IF err = "SseError401" THEN Resp("handler", 401, 1)
    ELSE IF route = "GET /sse" /\ err = "SseError404" THEN Resp("handler", 404, 1)
    ELSE IF route = "GET /sse" /\ err = "ECONNREFUSED" THEN Resp("handler", 500, 2)
    ELSE Resp("handler", 500, 1)

\* What a creation request (GET /stdio, GET /sse, or POST /mcp without a
\* session id) is answered with before the handler's first await: the
\* middlewares' answer, the catch block's answer when createTransport throws
\* before starting a transport (lines 433-435, 462, 478, 487-488), or
\* nothing yet.
CreateResponse(route, origin, authHeader, query) ==
    LET g == Gate(route, authDisabled, origin, authHeader)
    IN  IF g.by # "handler" THEN Resp(g.by, g.status, 1)
        ELSE IF query.transportType \notin TransportTypes \/ ~query.paramsOk
        THEN CatchCreate(route, "Error")
        ELSE Pending

\* A creation request.  Past the middlewares, createTransport builds the
\* upstream transport and awaits its start (lines 421-490).
CreateRequest(route, origin, authHeader) ==
    /\ listening
    /\ IF Gate(route, authDisabled, origin, authHeader).by # "handler"
       THEN UNCHANGED conns
       ELSE \E query \in Queries :
            IF CreateResponse(route, origin, authHeader, query) # Pending
            THEN UNCHANGED conns
            ELSE \E reqHeaders \in ReqHeaderSets,
                    isInit \in IF route = "POST /mcp" THEN BOOLEAN ELSE {FALSE} :
                 /\ Len(conns) < MaxConns
                 /\ conns' = Append(conns,
                       [route |-> route, kind |-> query.transportType,
                        pc |-> "starting", web |-> "none", server |-> "starting",
                        child |-> "none", sid |-> NoSid, relay |-> FALSE,
                        stderrOn |-> FALSE, out |-> <<>>, isInit |-> isInit,
                        resp |-> Pending,
                        holder |-> createTransportHolder(query.transportType,
                                                         reqHeaders)])
    /\ UNCHANGED <<authDisabled, webAppTransports, serverTransports,
                   sessionHeaderHolders, generated, pendingDeletes, gateVars, auxVars>>

\* The errors transport.start() can reject with, per upstream kind.
StartErrors(kind) ==
    IF kind = "stdio" THEN {"ENOENT"}
    ELSE IF kind = "sse" THEN {"SseError401", "SseError404", "ECONNREFUSED"}
    ELSE {}

\* transport.start() rejects: createTransport throws and the route's catch
\* block answers.
UpstreamStartFailed(c, err) ==
    /\ c \in ConnIds
    /\ conns[c].pc = "starting"
    /\ err \in StartErrors(conns[c].kind)
    /\ conns' = [conns EXCEPT ![c].pc = "failed", ![c].server = "closed",
                              ![c].resp = CatchCreate(conns[c].route, err)]
    /\ UNCHANGED <<authDisabled, webAppTransports, serverTransports,
                   sessionHeaderHolders, generated, pendingDeletes, gateVars, auxVars>>

\* The rest of app.get("/stdio") once createTransport has returned
\* (lines 649-733): the browser-facing transport is made and registered,
\* started, the stderr listener attached and the relay started.  With an
\* upstream that is not a StdioClientTransport, stderr is undefined and the
\* handler throws after the registration.
StdioContinue(c, sid) ==
    LET cn == conns[c]
        started == [cn EXCEPT !.sid = sid, !.web = "open", !.server = "open"]
    IN  /\ webAppTransports' = MapSet(webAppTransports, sid, c)
        /\ serverTransports' = MapSet(serverTransports, sid, c)
        /\ UNCHANGED sessionHeaderHolders
        /\ IF cn.kind = "stdio"
           THEN conns' = [conns EXCEPT ![c] =
                      [started EXCEPT !.pc = "active", !.child = "running",
                                      !.stderrOn = TRUE, !.relay = TRUE,
                                      !.resp = Resp("handler", 200, 1)]]
           ELSE conns' = [conns EXCEPT ![c] =
                      [started EXCEPT !.pc = "threw",
                                      !.resp = Resp("handler", 200, 2)]]

\* The rest of app.get("/sse") (lines 760-779).
SseContinue(c, sid) ==
    LET cn == conns[c]
    IN  /\ webAppTransports' = MapSet(webAppTransports, sid, c)
        /\ serverTransports' = MapSet(serverTransports, sid, c)
        /\ sessionHeaderHolders' =
              IF cn.holder.present THEN MapSet(sessionHeaderHolders, sid, c)
              ELSE sessionHeaderHolders
        /\ conns' = [conns EXCEPT ![c] =
              [cn EXCEPT !.sid = sid, !.web = "open", !.server = "open",
                         !.pc = "active", !.relay = TRUE,
                         !.resp = Resp("handler", 200, 1),
                         !.child = IF cn.kind = "stdio" THEN "running" ELSE @]]

\* onsessioninitialized (lines 566-573)
onsessioninitialized(c, sid) ==
    /\ webAppTransports' = MapSet(webAppTransports, sid, c)
    /\ serverTransports' = MapSet(serverTransports, sid, c)
    /\ sessionHeaderHolders' =
          IF conns[c].holder.present THEN MapSet(sessionHeaderHolders, sid, c)
          ELSE sessionHeaderHolders

\* The rest of the new-session branch of app.post("/mcp") (lines 564-593):
\* the browser-facing transport is made and started, the relay started, and
\* the request handed to the transport, which on an initialize request
\* generates the session id and calls onsessioninitialized, and otherwise
\* answers 400.
McpContinue(c, sid) ==
    LET cn == conns[c]
        started == [cn EXCEPT !.web = "open", !.server = "open", !.pc = "active",
                              !.relay = TRUE,
                              !.child = IF cn.kind = "stdio" THEN "running" ELSE @]
    IN  IF cn.isInit
        THEN /\ onsessioninitialized(c, sid)
             /\ conns' = [conns EXCEPT ![c] =
                   [started EXCEPT !.sid = sid, !.resp = Resp("handler", 200, 1)]]
        ELSE /\ conns' = [conns EXCEPT ![c] =
                   [started EXCEPT !.resp = Resp("handler", 400, 1)]]
             /\ UNCHANGED <<webAppTransports, serverTransports, sessionHeaderHolders>>

\* transport.start() resolves and the route's handler runs on.
UpstreamStarted(c) ==
    /\ c \in ConnIds
    /\ conns[c].pc = "starting"
    /\ \E sid \in randomUUID :
          /\ IF conns[c].route = "GET /stdio" THEN StdioContinue(c, sid)
             ELSE IF conns[c].route = "GET /sse" THEN SseContinue(c, sid)
             ELSE McpContinue(c, sid)
          /\ generated' = IF conns'[c].sid = sid THEN generated \cup {sid}
                          ELSE generated
    /\ UNCHANGED <<authDisabled, pendingDeletes, gateVars, auxVars>>

\* The browser-facing transport class a route's handler expects: GET and
\* POST /mcp call handleRequest (StreamableHTTPServerTransport), POST
\* /message calls handlePostMessage (SSEServerTransport).
ExpectsStreamable(route) == route \in {"GET /mcp", "POST /mcp"}
IsStreamable(cn) == cn.route = "POST /mcp"

\* What a request of an existing session is answered with: GET /mcp
\* (lines 496-522), POST /mcp with a session id (lines 532-557), POST
\* /message (lines 807-830).  A transport of the other class lacks the
\* method the handler calls (a TypeError, caught); a closed
\* SSEServerTransport answers 500 itself and throws, and the catch block
\* answers again.
ExistingResponse(route, origin, authHeader, sid) ==
    LET g == Gate(route, authDisabled, origin, authHeader)
    IN  IF g.by # "handler" THEN Resp(g.by, g.status, 1)
        ELSE IF sid \notin DOMAIN webAppTransports THEN Resp("handler", 404, 1)
        ELSE LET cn == conns[webAppTransports[sid]]
             IN  IF ExpectsStreamable(route) # IsStreamable(cn)
                 THEN Resp("handler", 500, 1)
                 ELSE IF ~IsStreamable(cn) /\ cn.web # "open"
                 THEN Resp("handler", 500, 2)
                 ELSE Resp("handler", 200, 1)

\* The handler of a request that names a session id: the header holder of
\* the session, if any, is updated in place; then the browser-facing
\* transport is looked up and handed the request.
ExistingHandler(route, sid) ==
    IF sid \notin DOMAIN sessionHeaderHolders
    THEN UNCHANGED conns
    ELSE \E reqHeaders \in ReqHeaderSets :
         conns' = [conns EXCEPT ![sessionHeaderHolders[sid]].holder.headers =
                     updateHeadersInPlace(@, getHttpHeaders(reqHeaders))]

\* A request of an existing session, through the middlewares.
ExistingRequest(route, origin, authHeader) ==
    /\ listening
    /\ IF Gate(route, authDisabled, origin, authHeader).by # "handler"
       THEN UNCHANGED conns
       ELSE \E sid \in IF route = "POST /mcp" THEN Ids ELSE Ids \cup {NoSid} :
            ExistingHandler(route, sid)
    /\ UNCHANGED <<authDisabled, webAppTransports, serverTransports,
                   sessionHeaderHolders, generated, pendingDeletes, gateVars, auxVars>>

\* A handler without the test of the lookup's result: terminateSession is
\* called on undefined, a TypeError, caught.
DeleteResponseNoLookupCheck(origin, authHeader, sid) ==
    LET g == Gate("DELETE /mcp", authDisabled, origin, authHeader)
    IN  IF g.by # "handler" THEN Resp(g.by, g.status, 1)
        ELSE IF sid = NoSid THEN Resp("handler", 0, 0)
        ELSE IF sid \notin DOMAIN serverTransports
                \/ conns[serverTransports[sid]].kind # "streamable-http"
        THEN Resp("handler", 500, 1)
        ELSE Pending

\* What app.delete("/mcp") answers with up to its await (lines 614-625).
\* Without a session id the handler ends without answering; for an unknown
\* id it answers 404 and then ends the response again with 200;
\* terminateSession exists on a StreamableHTTPClientTransport only, so
\* calling it on another upstream throws a TypeError, caught.
DeleteResponse(origin, authHeader, sid) ==
    LET g == Gate("DELETE /mcp", authDisabled, origin, authHeader)
    IN  IF g.by # "handler" THEN Resp(g.by, g.status, 1)
        ELSE IF sid = NoSid THEN Resp("handler", 0, 0)
        ELSE IF sid \notin DOMAIN serverTransports THEN Resp("handler", 404, 2)
        ELSE IF conns[serverTransports[sid]].kind # "streamable-http"
        THEN Resp("handler", 500, 1)
        ELSE Pending

RECURSIVE SumOver(_, _)
SumOver(f, S) ==
    IF S = {} THEN 0
    ELSE LET x == CHOOSE y \in S : TRUE IN f[x] + SumOver(f, S \ {x})

\* The DELETE /mcp handlers awaiting terminateSession().
PendingCount == SumOver(pendingDeletes, Ids)

\* The handler of app.delete("/mcp") for a session id, up to its await.
DeleteHandler(origin, authHeader, sid) ==
    IF DeleteResponse(origin, authHeader, sid) # Pending
    THEN UNCHANGED pendingDeletes
    ELSE /\ PendingCount < MaxPendingDeletes
         /\ pendingDeletes' = [pendingDeletes EXCEPT ![sid] = @ + 1]

\* app.delete("/mcp") up to its await.
DeleteRequest(origin, authHeader) ==
    /\ listening
    /\ IF Gate("DELETE /mcp", authDisabled, origin, authHeader).by # "handler"
       THEN UNCHANGED pendingDeletes
       ELSE \E sid \in Ids \cup {NoSid} : DeleteHandler(origin, authHeader, sid)
    /\ UNCHANGED <<authDisabled, webAppTransports, serverTransports,
                   sessionHeaderHolders, conns, generated, gateVars, auxVars>>

\* What app.delete("/mcp") answers with after its await (lines 625-635).
TerminateResponse(ok) == IF ok THEN Resp("handler", 200, 1) ELSE Resp("handler", 500, 1)

\* A teardown that forgets the header holder.
removeTransportsKeepHolder(sid) ==
    /\ webAppTransports' = MapDelete(webAppTransports, sid)
    /\ serverTransports' = MapDelete(serverTransports, sid)
    /\ UNCHANGED sessionHeaderHolders

\* A teardown that empties the three tables.
removeTransportsAll(sid) ==
    /\ webAppTransports' = EmptyMap
    /\ serverTransports' = EmptyMap
    /\ sessionHeaderHolders' = EmptyMap

\* The three deletes of a teardown (lines 626-628, 679-681, 575-577).
removeTransports(sid) ==
    /\ webAppTransports' = MapDelete(webAppTransports, sid)
    /\ serverTransports' = MapDelete(serverTransports, sid)
    /\ sessionHeaderHolders' = MapDelete(sessionHeaderHolders, sid)

\* app.delete("/mcp") after its await (lines 625-635): terminateSession()
\* has resolved (ok) or rejected.
TerminateSessionDone(sid, ok) ==
    /\ pendingDeletes[sid] > 0
    /\ pendingDeletes' = [pendingDeletes EXCEPT ![sid] = @ - 1]
    /\ IF TerminateResponse(ok).status = 200
       THEN removeTransports(sid)
       ELSE UNCHANGED <<webAppTransports, serverTransports, sessionHeaderHolders>>
    /\ UNCHANGED <<authDisabled, conns, generated, gateVars, auxVars>>

\* The browser drops the connection: the browser-facing transport closes and
\* calls its onclose.
WebClose(c) ==
    /\ c \in ConnIds
    /\ conns[c].web = "open"
    /\ conns' = [conns EXCEPT ![c] = mcpProxyOnClientClose(closeWeb(@))]
    /\ UNCHANGED <<authDisabled, webAppTransports, serverTransports,
                   sessionHeaderHolders, generated, pendingDeletes, gateVars, auxVars>>

\* The upstream goes away (the child process of a StdioClientTransport
\* exits, the remote server ends the stream): the upstream transport closes
\* and calls its onclose.
ServerClose(c) ==
    /\ c \in ConnIds
    /\ conns[c].server = "open"
    /\ conns' = [conns EXCEPT ![c] = mcpProxyOnServerClose(closeServer(@))]
    /\ UNCHANGED <<authDisabled, webAppTransports, serverTransports,
                   sessionHeaderHolders, generated, pendingDeletes, gateVars, auxVars>>

(***************************************************************************)
(* The stderr listener of app.get("/stdio") (lines 662-728): the string    *)
(* functions it calls, on strings as sequences of characters.              *)
(***************************************************************************)
LowerLetters == <<"a", "b", "c", "d", "e", "f", "g", "h", "i", "j", "k", "l", "m",
                  "n", "o", "p", "q", "r", "s", "t", "u", "v", "w", "x", "y", "z">>
UpperLetters == <<"A", "B", "C", "D", "E", "F", "G", "H", "I", "J", "K", "L", "M",
                  "N", "O", "P", "Q", "R", "S", "T", "U", "V", "W", "X", "Y", "Z">>

\* String.prototype.toUpperCase
toUpperCase(s) ==
    [i \in DOMAIN s |->
        IF \E k \in DOMAIN LowerLetters : LowerLetters[k] = s[i]
        THEN UpperLetters[CHOOSE k \in DOMAIN LowerLetters : LowerLetters[k] = s[i]]
        ELSE s[i]]

\* String.prototype.includes
includes(s, w) ==
    \E i \in 1..(Len(s) - Len(w) + 1) : SubSeq(s, i, i + Len(w) - 1) = w

\* The characters of the strings the listener searches for.
CharsOf(w) ==
    CASE w = "MODULE_NOT_FOUND" -> <<"M", "O", "D", "U", "L", "E", "_", "N", "O", "T", "_", "F", "O", "U", "N", "D">>
      [] w = "DEBUG" -> <<"D", "E", "B", "U", "G">>
      [] w = "INFO" -> <<"I", "N", "F", "O">>
      [] w = "NOTICE" -> <<"N", "O", "T", "I", "C", "E">>
      [] w = "WARN" -> <<"W", "A", "R", "N">>
      [] w = "ERROR" -> <<"E", "R", "R", "O", "R">>
      [] w = "CRITICAL" -> <<"C", "R", "I", "T", "I", "C", "A", "L">>
      [] w = "ALERT" -> <<"A", "L", "E", "R", "T">>
      [] w = "EMERGENCY" -> <<"E", "M", "E", "R", "G", "E", "N", "C", "Y">>
      [] w = "SIGINT" -> <<"S", "I", "G", "I", "N", "T">>
      [] w = "SIGHUP" -> <<"S", "I", "G", "H", "U", "P">>
      [] w = "SIGTERM" -> <<"S", "I", "G", "T", "E", "R", "M">>

SearchedUpperCased ==
    {"DEBUG", "INFO", "NOTICE", "WARN", "ERROR", "CRITICAL", "ALERT", "EMERGENCY",
     "SIGINT", "SIGHUP", "SIGTERM"}

\* The characters String.prototype.trim removes.
WhiteSpace == {" ", "\t", "\n", "\r"}

\* A trim of the end only.
trimEndOnly(s) ==
    IF \A i \in DOMAIN s : s[i] \in WhiteSpace THEN <<>>
    ELSE SubSeq(s, 1, CHOOSE j \in DOMAIN s :
                         s[j] \notin WhiteSpace /\ \A k \in (j + 1)..Len(s) : s[k] \in WhiteSpace)

\* String.prototype.trim (line 686)
trim(s) ==
    IF \A i \in DOMAIN s : s[i] \in WhiteSpace THEN <<>>
    ELSE SubSeq(s,
                CHOOSE i \in DOMAIN s :
                    s[i] \notin WhiteSpace /\ \A k \in 1..(i - 1) : s[k] \in WhiteSpace,
                CHOOSE j \in DOMAIN s :
                    s[j] \notin WhiteSpace /\ \A k \in (j + 1)..Len(s) : s[k] \in WhiteSpace)

\* The message of a signal branch (lines 705, 708, 711).
SignalMessage(w) ==
    CharsOf(w) \o <<" ", "r", "e", "c", "e", "i", "v", "e", "d", ".", " ",
                    "S", "e", "r", "v", "e", "r", " ",
                    "s", "h", "u", "t", "d", "o", "w", "n", ".">>

(***************************************************************************)
(* A chunk is its trimmed text, the marker strings it includes as written, *)
(* and the keywords its upper-cased text includes.  The texts of Chunks    *)
(* have no white space at either end.                                      *)
(***************************************************************************)
Chunks ==
    { [text |-> "Error: Cannot find module (code: 'MODULE_NOT_FOUND')",
       raw |-> {"MODULE_NOT_FOUND"}, uc |-> {"ERROR"}],
      [text |-> "ERROR: boom", raw |-> {}, uc |-> {"ERROR"}],
      [text |-> "hello world", raw |-> {}, uc |-> {}] }

Notification(level, logger, message) ==
    [level |-> level, logger |-> logger, message |-> message]

\* A classifier that tests ERROR before the milder keywords.
stderrNotificationErrorFirst(chunk) ==
    LET has(w) == w \in chunk.uc
    IN  IF has("ERROR") THEN Notification("error", "stdio", chunk.text)
        ELSE IF has("DEBUG") THEN Notification("debug", "stdio", chunk.text)
        ELSE IF has("INFO") THEN Notification("info", "stdio", chunk.text)
        ELSE IF has("NOTICE") THEN Notification("notice", "stdio", chunk.text)
        ELSE IF has("WARN") THEN Notification("warning", "stdio", chunk.text)
        ELSE IF has("CRITICAL") THEN Notification("critical", "stdio", chunk.text)
        ELSE IF has("ALERT") THEN Notification("alert", "stdio", chunk.text)
        ELSE IF has("EMERGENCY") THEN Notification("emergency", "stdio", chunk.text)
        ELSE IF has("SIGINT")
        THEN Notification("emergency", "stdio", SignalMessage("SIGINT"))
        ELSE IF has("SIGHUP")
        THEN Notification("emergency", "stdio", SignalMessage("SIGHUP"))
        ELSE IF has("SIGTERM")
        THEN Notification("emergency", "stdio", SignalMessage("SIGTERM"))
        ELSE Notification("info", "stdio", chunk.text)

\* The level and message of a chunk that is not the fatal one (lines 685-715).
stderrNotification(chunk) ==
    LET has(w) == w \in chunk.uc
    IN  IF has("DEBUG") THEN Notification("debug", "stdio", chunk.text)
        ELSE IF has("INFO") THEN Notification("info", "stdio", chunk.text)
        ELSE IF has("NOTICE") THEN Notification("notice", "stdio", chunk.text)
        ELSE IF has("WARN") THEN Notification("warning", "stdio", chunk.text)
        ELSE IF has("ERROR") THEN Notification("error", "stdio", chunk.text)
        ELSE IF has("CRITICAL") THEN Notification("critical", "stdio", chunk.text)
        ELSE IF has("ALERT") THEN Notification("alert", "stdio", chunk.text)
        ELSE IF has("EMERGENCY") THEN Notification("emergency", "stdio", chunk.text)
        ELSE IF has("SIGINT")
        THEN Notification("emergency", "stdio", SignalMessage("SIGINT"))
        ELSE IF has("SIGHUP")
        THEN Notification("emergency", "stdio", SignalMessage("SIGHUP"))
        ELSE IF has("SIGTERM")
        THEN Notification("emergency", "stdio", SignalMessage("SIGTERM"))
        ELSE Notification("info", "stdio", chunk.text)

CommandNotFound == Notification("emergency", "proxy", "Command not found, transports removed")

\* The branch with its statements reordered: the transports are closed
\* before the notification is sent.
fatalTeardownCloseFirst(cn) ==
    sendWeb(closeServer(mcpProxyOnClientClose(closeWeb(cn))), CommandNotFound)

\* The MODULE_NOT_FOUND branch (lines 663-682): what it does to the
\* connection, in the order of its statements.  webAppTransport.close()
\* calls the onclose the relay has set.
fatalTeardown(cn) ==
    closeServer(mcpProxyOnClientClose(closeWeb(sendWeb(cn, CommandNotFound))))

IsFatal(chunk) == "MODULE_NOT_FOUND" \in chunk.raw

StderrData(c, chunk) ==
    /\ c \in ConnIds
    /\ conns[c].stderrOn
    /\ IF IsFatal(chunk)
       THEN /\ conns' = [conns EXCEPT ![c] = fatalTeardown(@)]
            /\ removeTransports(conns[c].sid)
       ELSE /\ conns[c].web = "open" => Len(conns[c].out) < MaxOut
            /\ conns' = [conns EXCEPT ![c] = sendWeb(@, stderrNotification(chunk))]
            /\ UNCHANGED <<webAppTransports, serverTransports, sessionHeaderHolders>>
    /\ UNCHANGED <<authDisabled, generated, pendingDeletes, gateVars, auxVars>>

(***************************************************************************)
(* The header holder of one session, statement by statement: created by    *)
(* createTransport, updated in place by the later requests of the session, *)
(* read by the upstream transport on each outbound call.                   *)
(***************************************************************************)
\* The request headers of that session's requests, besides Origin: the
\* proxy's own two, forwardable ones, and the two meta-headers that name
\* further headers to forward.
BagReqHeaderSets ==
    { [k \in {} |-> Absent],
      "authorization" :> Str("Bearer upstream-1"),
      "authorization" :> Str("Bearer upstream-2") @@ "mcp-protocol-version" :> Str("2025-06-18"),
      "x-mcp-proxy-auth" :> Str("Bearer ab") @@ "mcp-session-id" :> Str("s1")
          @@ "last-event-id" :> Str("7"),
      "x-custom-auth-header" :> Str("X-Api-Key") @@ "x-api-key" :> Str("k1"),
      "x-custom-auth-header" :> Str("X-MCP-Proxy-Auth")
          @@ "x-mcp-proxy-auth" :> Str("Bearer ab"),
      "x-custom-auth-header" :> Str("mcp-session-id") @@ "mcp-session-id" :> Str("s1"),
      "x-custom-auth-header" :> Str("Accept") @@ "accept" :> Str("application/json"),
      "x-custom-auth-headers" :> Str("[\"X-Api-Key\",\"X-MCP-Proxy-Auth\"]")
          @@ "x-api-key" :> Str("k2") @@ "x-mcp-proxy-auth" :> Str("Bearer ab"),
      "x-custom-auth-headers" :> Str("\"X-Api-Key\"") @@ "x-api-key" :> Str("k2") }

\* The headers the SDK gives its own request (init.headers, line 405).
OriginalHeaderSets ==
    { [k \in {} |-> ""],
      "content-type" :> "application/json",
      "Authorization" :> "Bearer sdk" }

\* new Headers(init): names are case-insensitive, and the values given under
\* names that differ in case only are combined.
HeadersOf(init) ==
    [n \in {ToLowerCase(k) : k \in DOMAIN init} |->
        {init[k] : k \in {j \in DOMAIN init : ToLowerCase(j) = n}}]

\* A fetch that sends the request's own headers only.
createCustomFetchNoHolder(holderHeaders, originalHeaders) ==
    HeadersOf(originalHeaders)

\* The headers of the call the function returned by createCustomFetch makes
\* (lines 404-417): the holder's headers as they are at the call, the
\* request's own set over them.
createCustomFetch(holderHeaders, originalHeaders) ==
    LET finalHeaders == HeadersOf(holderHeaders)
        original == HeadersOf(originalHeaders)
    IN  [n \in DOMAIN finalHeaders \cup DOMAIN original |->
            IF n \in DOMAIN original THEN original[n] ELSE finalHeaders[n]]

\* A callback that runs whatever other code is running.
EventLoopFreeAlways == TRUE

\* Node runs one piece of synchronous code at a time: a handler or a
\* transport callback starts only when none is running.  updateHeadersInPlace
\* has no await (lines 285-301).
EventLoopFree == bagHolder.job.pc = "idle"

\* Whether the session's requests find the holder in sessionHeaderHolders:
\* GET /stdio registers none (lines 647-657).
BagRegistered == bagHolder.holder.present /\ bagHolder.route # "GET /stdio"

\* createTransport builds the holder and starts the upstream transport
\* (lines 454-456, 470, 473-475, 484).
BagCreate(route, transportType, reqHeaders) ==
    /\ ~bagHolder.created
    /\ bagHolder' = [created |-> TRUE, route |-> route, starts |-> 1,
                     holder |-> createTransportHolder(transportType, reqHeaders),
                     job |-> IdleJob, waiting |-> <<>>]
    /\ UNCHANGED <<authDisabled, sessionVars, gateVars, upstreamCall, stderrOut, relayLog, pureVars>>

\* A later request of the session: its handler calls updateHeadersInPlace
\* on the holder's headers (lines 500-506, 534-540, 812-818), which
\* captures Accept and clears the object.
BagUpdate(route, reqHeaders) ==
    /\ bagHolder.created /\ BagRegistered
    /\ EventLoopFree
    /\ bagHolder' = [bagHolder EXCEPT
          !.job = [pc |-> "cleared", done |-> FALSE,
                   accept |-> captureAccept(bagHolder.holder.headers),
                   newHeaders |-> getHttpHeaders(reqHeaders),
                   before |-> bagHolder.holder.headers],
          !.holder.headers = clearHeaders(@)]
    /\ UNCHANGED <<authDisabled, sessionVars, gateVars, upstreamCall, stderrOut, relayLog, pureVars>>

BagAssign ==
    /\ bagHolder.job.pc = "cleared"
    /\ bagHolder' = [bagHolder EXCEPT
          !.job.pc = "assigned",
          !.holder.headers = assignHeaders(@, bagHolder.job.newHeaders)]
    /\ UNCHANGED <<authDisabled, sessionVars, gateVars, upstreamCall, stderrOut, relayLog, pureVars>>

BagRestore ==
    /\ bagHolder.job.pc = "assigned"
    /\ bagHolder' = [bagHolder EXCEPT
          !.job.pc = "idle", !.job.done = TRUE,
          !.holder.headers = restoreAccept(@, bagHolder.job.accept)]
    /\ UNCHANGED <<authDisabled, sessionVars, gateVars, upstreamCall, stderrOut, relayLog, pureVars>>

\* The upstream transport makes an outbound call through the function
\* createCustomFetch returned.
UpstreamFetch(originalHeaders) ==
    /\ bagHolder.created /\ bagHolder.holder.present
    /\ EventLoopFree
    /\ upstreamCall' = [made |-> TRUE, read |-> bagHolder.holder.headers,
                        starts |-> bagHolder.starts,
                        headers |-> createCustomFetch(bagHolder.holder.headers,
                                                      originalHeaders)]
    /\ UNCHANGED <<authDisabled, sessionVars, gateVars, bagHolder, stderrOut, relayLog, pureVars>>

NextBag ==
    \/ \E route \in CreateRoutes, transportType \in TransportTypes,
          reqHeaders \in BagReqHeaderSets :
          BagCreate(route, transportType, reqHeaders)
    \/ \E route \in {"GET /mcp", "POST /mcp", "POST /message"},
          reqHeaders \in BagReqHeaderSets :
          BagUpdate(route, reqHeaders)
    \/ BagAssign
    \/ BagRestore
    \/ \E originalHeaders \in OriginalHeaderSets : UpstreamFetch(originalHeaders)

SpecBag == Init /\ [][NextBag]_vars

(***************************************************************************)
(* The requests of one session that carry a message, POST /message and     *)
(* POST /mcp with a session id, when several are in progress: each         *)
(* handler updates the session's one holder before its await (lines        *)
(* 534-540, 812-818) and the transport it awaits (lines 549-552, 825)      *)
(* reads the request's body, which no middleware of the route has read,    *)
(* and hands the message to the relay, whose upstream send reads the       *)
(* holder then (lines 404-417, 466-468, 481).  waiting keeps, per request  *)
(* in progress, the headers its handler projected.                         *)
(***************************************************************************)
\* The forwardable headers of those requests.
MessageReqHeaderSets ==
    { [k \in {} |-> Absent],
      "authorization" :> Str("Bearer upstream-1"),
      "authorization" :> Str("Bearer upstream-2"),
      "authorization" :> Str("Bearer upstream-2") @@ "mcp-protocol-version" :> Str("2025-06-18") }

\* seq without its i-th element
RemoveAt(seq, i) == SubSeq(seq, 1, i - 1) \o SubSeq(seq, i + 1, Len(seq))

\* The handler of a request with a message, up to its await: the holder is
\* updated with the request's headers and the request handed to the
\* browser-facing transport.
MessageRequest(route, reqHeaders) ==
    /\ bagHolder.created /\ BagRegistered
    /\ ExpectsStreamable(route) = (bagHolder.route = "POST /mcp")
    /\ EventLoopFree
    /\ Len(bagHolder.waiting) < MaxWaiting
    /\ LET projected == getHttpHeaders(reqHeaders)
       IN  bagHolder' = [bagHolder EXCEPT
              !.holder.headers = updateHeadersInPlace(@, projected),
              !.waiting = Append(@, projected)]
    /\ UNCHANGED <<authDisabled, sessionVars, gateVars, upstreamCall, stderrOut, relayLog, pureVars>>

\* The body of a request in progress has been read: the transport calls
\* its onmessage and the relay sends the message upstream, with the
\* holder's headers as they are now.
MessageForward(i) ==
    /\ i \in DOMAIN bagHolder.waiting
    /\ EventLoopFree
    /\ upstreamCall' = [made |-> TRUE, read |-> bagHolder.holder.headers,
                        starts |-> bagHolder.starts,
                        headers |-> createCustomFetch(bagHolder.holder.headers,
                                        "content-type" :> "application/json"),
                        of |-> bagHolder.waiting[i]]
    /\ bagHolder' = [bagHolder EXCEPT !.waiting = RemoveAt(@, i)]
    /\ UNCHANGED <<authDisabled, sessionVars, gateVars, stderrOut, relayLog, pureVars>>

NextConcurrent ==
    \/ \E route \in {"GET /sse", "POST /mcp"}, transportType \in {"sse", "streamable-http"},
          reqHeaders \in MessageReqHeaderSets :
          BagCreate(route, transportType, reqHeaders)
    \/ \E route \in {"POST /mcp", "POST /message"}, reqHeaders \in MessageReqHeaderSets :
          MessageRequest(route, reqHeaders)
    \/ \E i \in 1..MaxWaiting : MessageForward(i)

SpecConcurrent == Init /\ [][NextConcurrent]_vars

(***************************************************************************)
(* The messages of the sessions.  relayLog keeps, per connection, what the *)
(* browser-facing transport received (fromWeb), what was sent on the       *)
(* upstream transport (toServer) and what the upstream transport received  *)
(* (fromServer); what was sent on the browser-facing transport is the      *)
(* connection's out.  A browser message is its body and the session id it  *)
(* was addressed to; an upstream message is its body and the connection    *)
(* whose upstream emitted it.                                              *)
(***************************************************************************)
Bodies == {"m1", "m2"}

\* Messages received so far, both directions, all connections.
RECURSIVE ReceivedUpTo(_)
ReceivedUpTo(c) ==
    IF c = 0 THEN 0
    ELSE Len(relayLog[c].fromWeb) + Len(relayLog[c].fromServer) + ReceivedUpTo(c - 1)

\* mcpProxy: the onmessage it sets on the browser-facing transport sends
\* the message on the upstream transport, and the other way round.
mcpProxyOnClientMessage(cn, log, m) ==
    IF cn.relay /\ cn.server = "open"
    THEN [log EXCEPT !.toServer = Append(@, m)] ELSE log
mcpProxyOnServerMessage(cn, m) == IF cn.relay THEN sendWeb(cn, m) ELSE cn

\* A lookup that returns the transport of another session when there is one.
webAppTransportsGetOther(sid) ==
    IF \E k \in DOMAIN webAppTransports : k # sid
    THEN webAppTransports[CHOOSE k \in DOMAIN webAppTransports : k # sid]
    ELSE webAppTransports[sid]

\* webAppTransports.get(sessionId) (lines 543-545, 820)
webAppTransportsGet(sid) == webAppTransports[sid]

\* POST /message or POST /mcp with the id of a session and a message for
\* it (lines 530-553, 807-825), from a client with the credential: the
\* holder is updated, the transport looked up and handed the request, and
\* the transport calls its onmessage.
BrowserMessage(route, sid, body, reqHeaders) ==
    /\ listening
    /\ ReceivedUpTo(MaxConns) < MaxRelayMsgs
    /\ ExistingResponse(route, Str(DefaultOrigin), ValidAuth, sid).status = 200
    /\ LET c == webAppTransportsGet(sid)
           m == [body |-> body, to |-> sid]
       IN  /\ conns[c].web = "open"
           /\ conns' = IF sid \in DOMAIN sessionHeaderHolders
                       THEN [conns EXCEPT ![sessionHeaderHolders[sid]].holder.headers =
                               updateHeadersInPlace(@, getHttpHeaders(reqHeaders))]
                       ELSE conns
           /\ relayLog' = [relayLog EXCEPT ![c] =
                   mcpProxyOnClientMessage(conns[c],
                       [@ EXCEPT !.fromWeb = Append(@, m)], m)]
    /\ UNCHANGED <<authDisabled, webAppTransports, serverTransports,
                   sessionHeaderHolders, generated, pendingDeletes, gateVars,
                   bagVars, stderrOut, pureVars>>

\* The upstream of a connection emits a message: the upstream transport
\* calls its onmessage.
UpstreamMessage(c, body) ==
    /\ c \in ConnIds
    /\ conns[c].server = "open"
    /\ ReceivedUpTo(MaxConns) < MaxRelayMsgs
    /\ LET m == [body |-> body, of |-> c]
       IN  /\ relayLog' = [relayLog EXCEPT ![c].fromServer = Append(@, m)]
           /\ conns' = [conns EXCEPT ![c] = mcpProxyOnServerMessage(@, m)]
    /\ UNCHANGED <<authDisabled, webAppTransports, serverTransports,
                   sessionHeaderHolders, generated, pendingDeletes, gateVars,
                   bagVars, stderrOut, pureVars>>

\* A creation request of the runs with messages: it carries no header to
\* forward, and on POST /mcp it is an initialize request.
PlainCreation(cn) ==
    /\ cn.holder.headers = createTransportHolder(cn.kind, [k \in {} |-> Absent]).headers
    /\ cn.route = "POST /mcp" => cn.isInit

\* The sessions of clients that hold the credential, with upstreams that
\* start, and their messages.
NextRelay ==
    \/ Listening
    \/ \E route \in CreateRoutes :
          /\ CreateRequest(route, Str(DefaultOrigin), ValidAuth)
          /\ Len(conns') > Len(conns) => PlainCreation(conns'[Len(conns')])
    \/ \E c \in ConnIds : UpstreamStarted(c)
    \/ \E route \in {"POST /mcp", "POST /message"}, sid \in Ids, body \in Bodies :
          BrowserMessage(route, sid, body, [k \in {} |-> Absent])
    \/ \E c \in ConnIds, body \in Bodies : UpstreamMessage(c, body)
    \/ \E c \in ConnIds : WebClose(c)
    \/ \E c \in ConnIds : ServerClose(c)

SpecRelay == Init /\ [][NextRelay]_vars

(***************************************************************************)
(* The stderr listener on the text of the chunks, character by character.  *)
(***************************************************************************)
\* Words of stderr output.
StderrWords ==
    { <<"d", "e", "b", "u", "g">>,
      <<"I", "n", "f", "o">>,
      <<"N", "O", "T", "I", "C", "E">>,
      <<"w", "a", "r", "n">>,
      <<"W", "a", "r", "n", "i", "n", "g">>,
      <<"E", "R", "R", "O", "R">>,
      <<"c", "r", "i", "t", "i", "c", "a", "l">>,
      <<"A", "l", "e", "r", "t">>,
      <<"e", "m", "e", "r", "g", "e", "n", "c", "y">>,
      <<"S", "I", "G", "I", "N", "T">>,
      <<"s", "i", "g", "h", "u", "p">>,
      <<"S", "I", "G", "T", "E", "R", "M">>,
      <<"M", "O", "D", "U", "L", "E", "_", "N", "O", "T", "_", "F", "O", "U", "N", "D">>,
      <<"h", "e", "l", "l", "o">>,
      <<"b", "o", "o", "m">> }

\* White space around a text.
StderrPads == { <<>>, <<" ">>, <<"\n">> }

\* Texts of stderr output: two words with a space between, or nothing or a
\* word with white space before and after.
StderrTexts ==
    { a \o <<" ">> \o b : a, b \in StderrWords } \cup
    { pre \o w \o post : pre, post \in StderrPads, w \in StderrWords \cup {<<>>} }

\* The chunk of a text: chunk.toString().trim(), and what
\* chunk.includes("MODULE_NOT_FOUND") and ucMsg.includes(...) find in it.
ChunkOf(t) ==
    [text |-> trim(t),
     raw |-> {w \in {"MODULE_NOT_FOUND"} : includes(t, CharsOf(w))},
     uc |-> {w \in SearchedUpperCased : includes(toUpperCase(t), CharsOf(w))}]

\* The notification the listener sends for a chunk (lines 663-727).
stderrListenerSends(chunk) ==
    IF IsFatal(chunk) THEN CommandNotFound ELSE stderrNotification(chunk)

\* The child process writes a text to stderr and the listener is called
\* with it.
StderrText(t) ==
    /\ Len(stderrOut) < MaxStderrOut
    /\ stderrOut' = Append(stderrOut,
                       [chars |-> t, sent |-> stderrListenerSends(ChunkOf(t))])
    /\ UNCHANGED <<authDisabled, sessionVars, gateVars, bagVars, relayLog, pureVars>>

NextStderr == \E t \in StderrTexts : StderrText(t)

SpecStderr == Init /\ [][NextStderr]_vars

(***************************************************************************)
(* getHttpHeaders on requests as they arrive: a request's header lines, in *)
(* the order sent, and req.headers as node builds it from them: names      *)
(* lower-cased; of a repeated authorization, content-type or user-agent    *)
(* the first value; set-cookie an array; the values of any other repeated  *)
(* header joined with ", ".                                                *)
(***************************************************************************)
HeaderLine(name, value) == [name |-> name, value |-> value]

HeaderLines ==
    { HeaderLine("Authorization", "Bearer u1"),
      HeaderLine("authorization", "Bearer u2"),
      HeaderLine("mcp-protocol-version", "v1"),
      HeaderLine("mcp-protocol-version", "v2"),
      HeaderLine("last-event-id", "7"),
      HeaderLine("last-event-id", "8"),
      HeaderLine("mcp-session-id", "s1"),
      HeaderLine("user-agent", "curl"),
      HeaderLine("x-api-key", "k1"),
      HeaderLine("X-Api-Key", "k2"),
      HeaderLine("set-cookie", "c1"),
      HeaderLine("set-cookie", "c2"),
      HeaderLine("x-custom-auth-header", "X-Api-Key"),
      HeaderLine("x-custom-auth-header", "set-cookie"),
      HeaderLine("x-custom-auth-headers", "[\"X-Api-Key\"]"),
      HeaderLine("x-custom-auth-headers", "[\"X-Api-Key\"") }

RawRequests == UNION { [1..n -> HeaderLines] : n \in 0..MaxRawHeaders }

\* The headers of which node keeps the first value only.
DiscardsDuplicates(name) == name \in {"authorization", "content-type", "user-agent"}

\* The values a request gives under a name, in the order sent.
ValuesOf(raw, name) ==
    LET lines == SelectSeq(raw, LAMBDA l : ToLowerCase(l.name) = name)
    IN  [i \in DOMAIN lines |-> lines[i].value]

RECURSIVE Join(_)
\* The values joined with ", ".
Join(values) ==
    IF Len(values) = 1 THEN values[1]
    ELSE values[1] \o ", " \o Join(Tail(values))

\* req.headers
IncomingHeaders(raw) ==
    [name \in {ToLowerCase(raw[i].name) : i \in DOMAIN raw} |->
        IF name = "set-cookie" THEN Arr(ValuesOf(raw, name))
        ELSE IF DiscardsDuplicates(name) THEN Str(ValuesOf(raw, name)[1])
        ELSE Str(Join(ValuesOf(raw, name)))]

\* A handler calls getHttpHeaders(req) (lines 454, 473, 504, 538, 816).
Project(raw) ==
    /\ ~projection.made
    /\ projection' = [made |-> TRUE, raw |-> raw,
                      headers |-> getHttpHeaders(IncomingHeaders(raw))]
    /\ UNCHANGED <<authDisabled, sessionVars, gateVars, bagVars, stderrOut, relayLog,
                   spawnEnv>>

NextProject == \E raw \in RawRequests : Project(raw)

SpecProject == Init /\ [][NextProject]_vars

(***************************************************************************)
(* The environment of a spawned process (lines 187-190, 435-436).  An      *)
(* environment is a function from some of the names to values.             *)
(***************************************************************************)
EnvNames == {"PATH", "FOO", "BAR"}

\* The environments in which every name present has the value given.
EnvsOf(value) == UNION { [names -> {value}] : names \in SUBSET EnvNames }

\* { ...a, ...b }
Spread(a, b) ==
    [k \in DOMAIN a \cup DOMAIN b |-> IF k \in DOMAIN b THEN b[k] ELSE a[k]]

\* getDefaultEnvironment(): the variables of process.env that are inherited
\* by default.
getDefaultEnvironment(processEnv) ==
    [k \in DOMAIN processEnv \cap {"PATH"} |-> processEnv[k]]

\* const defaultEnvironment (lines 187-190); mcpEnvVars is
\* JSON.parse(process.env.MCP_ENV_VARS), or {} without it.
defaultEnvironment(processEnv, mcpEnvVars) ==
    Spread(getDefaultEnvironment(processEnv), mcpEnvVars)

\* An environment in which the inherited one comes last.
composeEnvProcessLast(defaults, processEnv, queryEnv) ==
    Spread(Spread(defaults, queryEnv), processEnv)

\* const env = { ...defaultEnvironment, ...process.env, ...queryEnv }
\* (line 436)
composeEnv(defaults, processEnv, queryEnv) ==
    Spread(Spread(defaults, processEnv), queryEnv)

\* createTransport for a stdio upstream, up to the spawn (lines 432-447);
\* queryEnv is JSON.parse(query.env), or {} without it (line 435).
SpawnEnv(processEnv, mcpEnvVars, queryEnv) ==
    /\ ~spawnEnv.made
    /\ spawnEnv' = [made |-> TRUE, processEnv |-> processEnv, queryEnv |-> queryEnv,
                    defaults |-> defaultEnvironment(processEnv, mcpEnvVars),
                    env |-> composeEnv(defaultEnvironment(processEnv, mcpEnvVars),
                                       processEnv, queryEnv)]
    /\ UNCHANGED <<authDisabled, sessionVars, gateVars, bagVars, stderrOut, relayLog,
                   projection>>

NextSpawn ==
    \E processEnv \in EnvsOf("inherited"), mcpEnvVars \in EnvsOf("default"),
       queryEnv \in EnvsOf("override") :
        SpawnEnv(processEnv, mcpEnvVars, queryEnv)

SpecSpawn == Init /\ [][NextSpawn]_vars

(***************************************************************************)
(* The specifications.  Spec: the sessions.  SpecGate: express dispatching *)
(* one request at a time through its route's chain, and the server log.    *)
(***************************************************************************)
Next ==
    \/ Listening
    \/ \E route \in CreateRoutes, origin \in SessOrigins, authHeader \in SessAuths :
          CreateRequest(route, origin, authHeader)
    \/ \E c \in ConnIds : UpstreamStarted(c)
    \/ \E c \in ConnIds, err \in {"ENOENT", "SseError401", "SseError404", "ECONNREFUSED"} :
          UpstreamStartFailed(c, err)
    \/ \E route \in {"GET /mcp", "POST /mcp", "POST /message"},
          origin \in SessOrigins, authHeader \in SessAuths :
          ExistingRequest(route, origin, authHeader)
    \/ \E origin \in SessOrigins, authHeader \in SessAuths :
          DeleteRequest(origin, authHeader)
    \/ \E sid \in Ids, ok \in BOOLEAN : TerminateSessionDone(sid, ok)
    \/ \E c \in ConnIds : WebClose(c)
    \/ \E c \in ConnIds : ServerClose(c)
    \/ \E c \in ConnIds, chunk \in Chunks : StderrData(c, chunk)

Spec == Init /\ [][Next]_vars

\* The sessions of the clients that send the allowed origin and the
\* credential, created by requests without headers to forward.
NextTrusted ==
    \/ Listening
    \/ \E route \in CreateRoutes :
          /\ CreateRequest(route, Str(DefaultOrigin), ValidAuth)
          /\ Len(conns') > Len(conns) => PlainCreation(conns'[Len(conns')])
    \/ \E c \in ConnIds : UpstreamStarted(c)
    \/ \E c \in ConnIds, err \in {"ENOENT", "SseError401", "SseError404", "ECONNREFUSED"} :
          UpstreamStartFailed(c, err)
    \/ \E route \in {"GET /mcp", "POST /mcp", "POST /message"} :
          ExistingRequest(route, Str(DefaultOrigin), ValidAuth)
    \/ DeleteRequest(Str(DefaultOrigin), ValidAuth)
    \/ \E sid \in Ids, ok \in BOOLEAN : TerminateSessionDone(sid, ok)
    \/ \E c \in ConnIds : WebClose(c)
    \/ \E c \in ConnIds : ServerClose(c)
    \/ \E c \in ConnIds, chunk \in Chunks : StderrData(c, chunk)

SpecTrusted == Init /\ [][NextTrusted]_vars

\* The sessions with the promises the handlers await settling: an upstream
\* start resolves or rejects, a terminateSession() resolves or rejects.
FairSpec ==
    /\ Spec
    /\ WF_vars(\E c \in 1..MaxConns :
                  \/ UpstreamStarted(c)
                  \/ \E err \in {"ENOENT", "SseError401", "SseError404", "ECONNREFUSED"} :
                        UpstreamStartFailed(c, err))
    /\ WF_vars(\E sid \in Ids, ok \in BOOLEAN : TerminateSessionDone(sid, ok))

\* The session routes with every x-mcp-proxy-auth value, for MaxAuthConns
\* connections.
NextAuth ==
    \/ Listening
    \/ \E route \in CreateRoutes, origin \in SessOrigins, authHeader \in AuthHeaders :
          CreateRequest(route, origin, authHeader) /\ Len(conns') <= MaxAuthConns
    \/ \E c \in ConnIds : UpstreamStarted(c)
    \/ \E c \in ConnIds, err \in {"ENOENT", "SseError401", "SseError404", "ECONNREFUSED"} :
          UpstreamStartFailed(c, err)
    \/ \E route \in {"GET /mcp", "POST /mcp", "POST /message"},
          origin \in SessOrigins, authHeader \in AuthHeaders :
          ExistingRequest(route, origin, authHeader)
    \/ \E origin \in SessOrigins, authHeader \in AuthHeaders :
          DeleteRequest(origin, authHeader)
    \/ \E sid \in Ids, ok \in BOOLEAN : TerminateSessionDone(sid, ok)
    \/ \E c \in ConnIds : WebClose(c)
    \/ \E c \in ConnIds : ServerClose(c)
    \/ \E c \in ConnIds, chunk \in Chunks : StderrData(c, chunk)

SpecAuth == Init /\ [][NextAuth]_vars

NextGate ==
    \/ Listening
    \/ \E route \in Routes, origin \in Origins, authHeader \in AuthHeaders :
          \E text \in IF LogsText(route) THEN Texts ELSE {<<>>} :
             GateArrive(route, origin, authHeader, text)
    \/ GateOrigin
    \/ GateAuth
    \/ GateJson
    \/ GateHandler
    \/ GateDone

SpecGate == Init /\ [][NextGate]_vars

(***************************************************************************)
(* Properties of the middleware chains and of the server log, checked      *)
(* under SpecGate.                                                         *)
(***************************************************************************)
\* Whether step tag t is in the trace of the request being dispatched.
Ran(t) == \E i \in 1..Len(gateTrace) : gateTrace[i] = t
AuthRanAt(i) == gateTrace[i] \in {"auth:disabled", "auth:malformed",
                                  "auth:length", "auth:compared"}

\* An Origin header the origin check lets through: none, or an allowed one.
OriginAcceptable(origin) ==
    origin = Absent \/ origin = Str("") \/ origin = Str(DefaultOrigin)

\* C7: on every route a client can reach, the origin check runs, and runs
\* before the credential check: no handler runs for a request whose Origin
\* is present and not allowed, and the credential check never runs without
\* the origin check before it.
C7_OriginCheckedFirstOnEveryRoute ==
    gateReq # NoReq =>
        /\ Ran("handler") => (gateTrace[1] = "origin" /\ OriginAcceptable(gateReq.origin))
        /\ \A i \in 1..Len(gateTrace) :
              AuthRanAt(i) => \E j \in 1..(i - 1) : gateTrace[j] = "origin"

\* C9: no entry of the server log shows the session secret.
C9_SecretNeverLogged ==
    \A i \in 1..Len(serverLog) : ~Shows(serverLog[i], sessionToken)

\* A credential of the expected form: the Bearer prefix and a candidate.
BearerFormed(h) == h.kind = "string" /\ StartsWith(h.v, BearerPrefix)

\* C10: a credential of the expected form is never rejected on the length
\* of its candidate alone: when the credential check rejects it, it has
\* been through the fixed-cost comparison.
C10_NoLengthShortCircuit ==
    (gateReq # NoReq /\ gateRes # NoRes /\ gateRes.by = "auth"
        /\ BearerFormed(gateReq.auth))
    => Ran("auth:compared")

(***************************************************************************)
(* Properties of the session tables, checked under Spec.                   *)
(***************************************************************************)
InAllTables(sid) ==
    /\ sid \in DOMAIN webAppTransports
    /\ sid \in DOMAIN serverTransports
    /\ sid \in DOMAIN sessionHeaderHolders

InNoTable(sid) ==
    /\ sid \notin DOMAIN webAppTransports
    /\ sid \notin DOMAIN serverTransports
    /\ sid \notin DOMAIN sessionHeaderHolders

\* The connection a session id was given to, if any.
ConnsOf(sid) == {c \in ConnIds : conns[c].sid = sid}

\* A request that passes both middlewares.
GoodOrigin == Str(DefaultOrigin)

\* C1 as stated: every session id is in all three tables or in none.
C1_AllTablesOrNone ==
    \A sid \in Ids : InAllTables(sid) \/ InNoTable(sid)

\* C1: a session id is in webAppTransports exactly when it is in
\* serverTransports, both entries are of the same connection, and it is in
\* sessionHeaderHolders exactly when, in addition, the connection was made
\* by GET /sse or POST /mcp with an upstream that has a header holder
\* (sse or streamable-http).
C1_TransportTablesAgree ==
    /\ DOMAIN webAppTransports = DOMAIN serverTransports
    /\ DOMAIN sessionHeaderHolders \subseteq DOMAIN webAppTransports
    /\ \A sid \in DOMAIN webAppTransports :
          /\ webAppTransports[sid] = serverTransports[sid]
          /\ LET cn == conns[webAppTransports[sid]]
             IN  /\ cn.sid = sid
                 /\ sid \in DOMAIN sessionHeaderHolders <=>
                       (cn.route # "GET /stdio" /\ cn.kind \in {"sse", "streamable-http"})
                 /\ sid \in DOMAIN sessionHeaderHolders =>
                       sessionHeaderHolders[sid] = webAppTransports[sid]

\* A stdio session registered in the two transport tables only, next to a
\* session that is in all three.
C1_Witness ==
    /\ \E sid \in DOMAIN webAppTransports :
          /\ sid \notin DOMAIN sessionHeaderHolders
          /\ conns[webAppTransports[sid]].kind = "stdio"
    /\ \E sid \in Ids : InAllTables(sid)

\* C3: a session id that has been registered and is gone from the tables
\* has no running child process, no open upstream transport and no open
\* browser-facing transport.
C3_RemovedMeansReleased ==
    \A c \in ConnIds :
        (conns[c].sid # NoSid /\ conns[c].sid \notin DOMAIN webAppTransports)
        => /\ conns[c].child # "running"
           /\ conns[c].web # "open"
           /\ conns[c].server # "open"

\* The steps that close a session by its id: DELETE /mcp once
\* terminateSession() has resolved, and the MODULE_NOT_FOUND branch of the
\* stderr listener.
CloseStep(sid) ==
    \/ TerminateSessionDone(sid, TRUE)
    \/ \E c \in ConnIds, chunk \in Chunks :
          IsFatal(chunk) /\ conns[c].sid = sid /\ StderrData(c, chunk)

C5_FatalNotifiesThenTearsDown ==
    [][\A c \in 1..MaxConns, chunk \in Chunks :
          (IsFatal(chunk) /\ StderrData(c, chunk)) =>
              /\ conns[c].web = "open" =>
                    conns'[c].out = Append(conns[c].out, CommandNotFound)
              /\ conns'[c].web = "closed"
              /\ conns'[c].server = "closed"
              /\ conns'[c].child # "running"
              /\ InNoTable(conns[c].sid)']_vars

\* A session torn down by the fatal branch: the notification is the last
\* message it was sent.
C5_Witness ==
    \E c \in ConnIds :
        /\ conns[c].sid # NoSid
        /\ InNoTable(conns[c].sid)
        /\ Len(conns[c].out) > 0
        /\ conns[c].out[Len(conns[c].out)] = CommandNotFound
        /\ conns[c].web = "closed" /\ conns[c].server = "closed"

\* A session id that was registered and is in no table any more.
Closed(sid) == sid \in generated /\ InNoTable(sid)

\* C6: a closed session id stays closed, no session is registered under an
\* id that was used before, and a request with a closed id is answered 404.
C6_ClosedIsTerminal ==
    /\ [](\A sid \in Ids :
            Closed(sid) =>
                /\ \A route \in {"GET /mcp", "POST /mcp", "POST /message"} :
                      ExistingResponse(route, GoodOrigin, ValidAuth, sid).status = 404
                /\ DeleteResponse(GoodOrigin, ValidAuth, sid).status = 404)
    /\ [][\A sid \in Ids :
            /\ Closed(sid) => Closed(sid)'
            /\ (sid \in DOMAIN webAppTransports' /\ sid \notin DOMAIN webAppTransports)
                  => sid \notin generated]_vars

\* A closed session id next to a registered session of another id.
C6_Witness ==
    \E sid \in Ids, c \in ConnIds :
        /\ Closed(sid)
        /\ conns[c].sid \notin {sid, NoSid}
        /\ InAllTables(conns[c].sid)
        /\ \E d \in ConnsOf(sid) : d < c

\* A registered session one of whose transports has closed.
TransportClosed(c) ==
    /\ c \in ConnIds
    /\ conns[c].sid # NoSid
    /\ conns[c].web = "closed" \/ conns[c].server = "closed"

\* C2: once a transport of a registered session has closed, the session's
\* id eventually is in no table.
C2_CloseLeadsToTeardown ==
    \A c \in 1..MaxConns :
        TransportClosed(c) ~> (c \in ConnIds /\ InNoTable(conns[c].sid))

(***************************************************************************)
(* The credential check on the session routes, checked under SpecAuth.     *)
(***************************************************************************)
\* The one header value that authenticates.
Authorized(authHeader) ==
    authHeader.kind = "string" /\ authHeader.v = BearerPrefix \o sessionToken

\* A request on one of the six session routes.
SessionRequest(origin, authHeader) ==
    \/ \E route \in CreateRoutes : CreateRequest(route, origin, authHeader)
    \/ \E route \in {"GET /mcp", "POST /mcp", "POST /message"} :
          ExistingRequest(route, origin, authHeader)
    \/ DeleteRequest(origin, authHeader)

\* C8: with authentication enabled, a request on a session route reaches
\* the route's handler exactly when its x-mcp-proxy-auth header is
\* "Bearer " followed by the secret; any other is answered 401 and changes
\* no session state.  With authentication disabled every request reaches
\* the handler.
C8_AuthGate ==
    /\ [](\A route \in SessionRoutes, authHeader \in AuthHeaders :
            LET g == Gate(route, authDisabled, GoodOrigin, authHeader)
            IN  IF authDisabled \/ Authorized(authHeader)
                THEN g.by = "handler"
                ELSE g.by = "auth" /\ g.status = 401)
    /\ [][\A origin \in SessOrigins, authHeader \in AuthHeaders :
            (~authDisabled /\ ~Authorized(authHeader) /\ SessionRequest(origin, authHeader))
            => UNCHANGED sessionVars]_vars

\* With authentication enabled, a registered session: its creation passed
\* the check, a DELETE /mcp of it without the header is answered 401, and
\* one with a wrong candidate of the right length too.
C8_Witness ==
    /\ ~authDisabled
    /\ \E sid \in DOMAIN serverTransports :
          /\ DeleteResponse(GoodOrigin, Absent, sid) = Resp("auth", 401, 1)
          /\ DeleteResponse(GoodOrigin, Str(BearerPrefix \o <<"a", "a">>), sid)
                = Resp("auth", 401, 1)
          /\ DeleteResponse(GoodOrigin, ValidAuth, sid).by = "handler"

(***************************************************************************)
(* The origin check, checked under SpecGate.                               *)
(***************************************************************************)
\* The request being dispatched has been through the origin check.
OriginChecked == gateReq # NoReq /\ Ran("origin")

\* The origin check answered 403 and nothing ran after it.
OriginRejected ==
    /\ gateRes # NoRes
    /\ gateRes.by = "origin" /\ gateRes.status = 403
    /\ gateTrace[Len(gateTrace)] = "origin"
    /\ ~Ran("handler")

\* C11 as stated: a request with no Origin header or an allowed one passes
\* the origin check, and every request whose Origin header is present and
\* not on the allow-list is answered 403 without the next handler running.
C11_PresentAndNotAllowedRejected ==
    OriginChecked =>
        IF gateReq.origin.kind = "string" /\ gateReq.origin.v # "http://localhost:6274"
        THEN OriginRejected
        ELSE gateRes = NoRes \/ gateRes.by # "origin"

\* C11: a request with no Origin header, an empty one or an allowed one
\* passes the origin check; a request whose Origin header is a non-empty
\* value not on the allow-list is answered 403 without the next handler
\* running.
C11_OriginGuard ==
    OriginChecked =>
        IF /\ gateReq.origin.kind = "string"
           /\ gateReq.origin.v \notin {"", "http://localhost:6274"}
        THEN OriginRejected
        ELSE gateRes = NoRes \/ gateRes.by # "origin"

\* A request from a disallowed origin, answered 403 by the origin check.
C11_Witness ==
    /\ OriginChecked
    /\ gateReq.origin = Str("http://evil.example")
    /\ OriginRejected

(***************************************************************************)
(* Properties of the header projection and of the header holder, checked   *)
(* under SpecBag.                                                          *)
(***************************************************************************)
\* The proxy's own auth header and the proxy-assigned session-id header.
ProxyOwnHeaders == {"x-mcp-proxy-auth", "mcp-session-id"}

NoProxyOwn(headers) == \A k \in DOMAIN headers : ToLowerCase(k) \notin ProxyOwnHeaders

\* An update of the holder has run to its end and none is running.
UpdateDone == bagHolder.job.done /\ bagHolder.job.pc = "idle"

\* C12: the header set projected from a request (the holder's content at
\* creation, the new set of an update, the headers of an upstream call)
\* never has the proxy's own auth header or the session-id header.
C12_ProxyHeadersNeverProjected ==
    /\ NoProxyOwn(bagHolder.holder.headers)
    /\ NoProxyOwn(bagHolder.job.newHeaders)
    /\ upstreamCall.made => \A n \in DOMAIN upstreamCall.headers : n \notin ProxyOwnHeaders

\* C13: after an update whose new set has no Accept the holder has the
\* Accept value it had before, and after an update whose new set has an
\* Accept the holder has the new set's value.
C13_AcceptKeptUnlessOverridden ==
    UpdateDone =>
        LET job == bagHolder.job
            headers == bagHolder.holder.headers
        IN  /\ "Accept" \in DOMAIN headers
            /\ IF "Accept" \in DOMAIN job.newHeaders
               THEN headers["Accept"] = job.newHeaders["Accept"]
               ELSE headers["Accept"] = job.before["Accept"]

\* C14: after an update, every key of the holder other than Accept is a key
\* of the new set with the new set's value, every key of the new set other
\* than Accept is in the holder, and no key the holder had before that is
\* not in the new set (other than Accept) is left.
C14_UpdateReplacesWholesale ==
    UpdateDone =>
        LET job == bagHolder.job
            headers == bagHolder.holder.headers
        IN  /\ \A k \in DOMAIN headers \ {"Accept"} :
                  k \in DOMAIN job.newHeaders /\ headers[k] = job.newHeaders[k]
            /\ \A k \in DOMAIN job.newHeaders \ {"Accept"} : k \in DOMAIN headers
            /\ \A k \in DOMAIN job.before \ ({"Accept"} \cup DOMAIN job.newHeaders) :
                  k \notin DOMAIN headers

\* An update has removed the authorization entry the holder had and put in
\* another entry.
C14_Witness ==
    /\ UpdateDone
    /\ "authorization" \in DOMAIN bagHolder.job.before
    /\ "authorization" \notin DOMAIN bagHolder.holder.headers
    /\ "X-Api-Key" \in DOMAIN bagHolder.holder.headers

\* The names the call's own headers give a value to.
OwnNames(originalHeaders) == {ToLowerCase(k) : k \in DOMAIN originalHeaders}

\* C15: the upstream transport is started once and the updates leave it
\* so; an outbound call made after an update carries every entry of the
\* update's new set (other than Accept, and other than what the call's own
\* headers override), and the Accept set at creation.
C15_UpdateSeenByNextCall ==
    /\ [](bagHolder.created => bagHolder.starts = 1)
    /\ [][\A originalHeaders \in OriginalHeaderSets :
            (UpstreamFetch(originalHeaders) /\ UpdateDone) =>
                LET sent == upstreamCall'.headers
                    new == bagHolder.job.newHeaders
                IN  /\ upstreamCall'.starts = 1
                    /\ \A k \in DOMAIN new \ {"Accept"} :
                          ToLowerCase(k) \notin OwnNames(originalHeaders) =>
                              /\ ToLowerCase(k) \in DOMAIN sent
                              /\ new[k] \in sent[ToLowerCase(k)]
                    /\ "accept" \in DOMAIN sent]_vars

\* A call made after an update that replaced the upstream credential: it
\* carries the new one.
C15_Witness ==
    /\ UpdateDone
    /\ upstreamCall.made
    /\ upstreamCall.read = bagHolder.holder.headers
    /\ "authorization" \in DOMAIN bagHolder.job.before
    /\ bagHolder.job.before["authorization"] = "Bearer upstream-1"
    /\ "authorization" \in DOMAIN upstreamCall.headers
    /\ upstreamCall.headers["authorization"] = {"Bearer upstream-2"}

\* C16: the holder content an outbound call reads is never that of a
\* half-done update: it has the Accept entry, while an update is running it
\* is the content before the update or the content after it, and otherwise
\* it is the content the last update left.
C16_ReadNeverHalfUpdated ==
    [][\A originalHeaders \in OriginalHeaderSets :
          UpstreamFetch(originalHeaders) =>
              LET read == upstreamCall'.read
                  job == bagHolder.job
                  after == updateHeadersInPlace(job.before, job.newHeaders)
              IN  /\ "Accept" \in DOMAIN read
                  /\ job.pc # "idle" => read \in {job.before, after}
                  /\ UpdateDone => read = after]_vars

\* A call that read the holder after an update that changed its content.
C16_Witness ==
    /\ UpdateDone
    /\ upstreamCall.made
    /\ upstreamCall.read = updateHeadersInPlace(bagHolder.job.before,
                                                bagHolder.job.newHeaders)
    /\ upstreamCall.read # bagHolder.job.before
    /\ "Accept" \in DOMAIN upstreamCall.read

\* The upstream messages among what was sent on a browser-facing transport.
FromUpstream(out) == SelectSeq(out, LAMBDA m : "of" \in DOMAIN m)

\* The connection is a registered session with both transports open.
BothOpen(c) ==
    /\ c \in DOMAIN conns
    /\ conns[c].sid \in DOMAIN webAppTransports
    /\ webAppTransports[conns[c].sid] = c
    /\ conns[c].web = "open"
    /\ conns[c].server = "open"

Range(seq) == { seq[i] : i \in DOMAIN seq }

\* C18: a browser message is sent only to the upstream of the session it
\* was addressed to, and a message an upstream emitted is delivered only on
\* the browser-facing transport of that upstream's session.
C18_NoCrossDelivery ==
    \A c \in ConnIds :
        /\ \A m \in Range(relayLog[c].toServer) : m.to = conns[c].sid
        /\ \A m \in Range(FromUpstream(conns[c].out)) : m.of = c

\* Two sessions open at the same time, a browser message relayed in one and
\* an upstream message relayed in the other.
C18_Witness ==
    \E a, b \in ConnIds :
        /\ a # b
        /\ BothOpen(a) /\ BothOpen(b)
        /\ relayLog[a].toServer # <<>>
        /\ FromUpstream(conns[b].out) # <<>>

\* The routes that look a session up by the id the request carries.
LookupRoutes == {"GET /mcp", "POST /mcp", "POST /message"}

\* A request with the credential for the session id, on a lookup route or
\* DELETE /mcp.
LookupRequestFor(sid) ==
    /\ listening
    /\ \/ /\ \E route \in LookupRoutes : ExistingHandler(route, sid)
          /\ UNCHANGED pendingDeletes
       \/ /\ DeleteHandler(GoodOrigin, ValidAuth, sid)
          /\ UNCHANGED conns
    /\ UNCHANGED <<authDisabled, webAppTransports, serverTransports,
                   sessionHeaderHolders, generated, gateVars, auxVars>>

\* C19: a request past the middlewares that names a session id not in the
\* registry is answered 404 on GET /mcp, POST /mcp, POST /message and
\* DELETE /mcp, and changes no table, no header holder and nothing else of
\* the sessions.
C19_UnknownSessionNotFound ==
    /\ [](\A sid \in Ids :
            sid \notin DOMAIN webAppTransports =>
                /\ \A route \in LookupRoutes :
                      ExistingResponse(route, GoodOrigin, ValidAuth, sid).status = 404
                /\ DeleteResponse(GoodOrigin, ValidAuth, sid).status = 404)
    /\ [][\A sid \in Ids :
            (sid \notin DOMAIN webAppTransports /\ LookupRequestFor(sid))
            => UNCHANGED sessionVars]_vars

\* A session is registered, and a POST /message and a DELETE /mcp that name
\* another id are answered 404.
C19_Witness ==
    /\ DOMAIN webAppTransports # {}
    /\ \E sid \in Ids \ DOMAIN webAppTransports :
          /\ ExistingResponse("POST /message", GoodOrigin, ValidAuth, sid).status = 404
          /\ DeleteResponse(GoodOrigin, ValidAuth, sid) = Resp("handler", 404, 2)

\* The keywords of the listener's chain in its order (lines 690-705), and
\* the level each gives.
ChainKeywords == <<"DEBUG", "INFO", "NOTICE", "WARN", "ERROR", "CRITICAL", "ALERT", "EMERGENCY">>
ChainLevels == <<"debug", "info", "notice", "warning", "error", "critical", "alert", "emergency">>

\* The keywords as the severity names read: the fourth is WARNING.
NamedKeywords ==
    [k \in DOMAIN ChainKeywords |->
        IF ChainKeywords[k] = "WARN" THEN CharsOf("WARN") \o <<"I", "N", "G">>
        ELSE CharsOf(ChainKeywords[k])]

\* The level of the first keyword of the table that the text contains,
\* whatever the case of its letters; otherwise the level given.
FirstMatch(chars, table, otherwise) ==
    LET hit(k) == includes(toUpperCase(chars), table[k])
    IN  IF \E k \in DOMAIN table : hit(k)
        THEN ChainLevels[CHOOSE k \in DOMAIN table : hit(k) /\ \A j \in 1..(k - 1) : ~hit(j)]
        ELSE otherwise

\* The chunks the listener classifies: all but the fatal one.
Classified(e) == ~includes(e.chars, CharsOf("MODULE_NOT_FOUND"))

NamesSignal(chars) ==
    \E w \in {"SIGINT", "SIGHUP", "SIGTERM"} : includes(toUpperCase(chars), CharsOf(w))

\* C20 as stated: a text gets the level of the first of debug, info, notice,
\* warning, error, critical, alert, emergency that it contains, and info
\* when it contains none.
C20_FirstNamedKeywordOrInfo ==
    \A i \in DOMAIN stderrOut :
        Classified(stderrOut[i]) =>
            stderrOut[i].sent.level = FirstMatch(stderrOut[i].chars, NamedKeywords, "info")

\* C20: a chunk without MODULE_NOT_FOUND gets the level of the first of
\* DEBUG, INFO, NOTICE, WARN, ERROR, CRITICAL, ALERT, EMERGENCY that its
\* upper-cased text contains, WARN giving warning; a chunk with none of
\* them gets emergency when it contains SIGINT, SIGHUP or SIGTERM, and info
\* otherwise.
C20_FirstChainKeyword ==
    \A i \in DOMAIN stderrOut :
        Classified(stderrOut[i]) =>
            stderrOut[i].sent.level =
                FirstMatch(stderrOut[i].chars,
                           [k \in DOMAIN ChainKeywords |-> CharsOf(ChainKeywords[k])],
                           IF NamesSignal(stderrOut[i].chars) THEN "emergency" ELSE "info")

\* The text "ERROR warn" was given warning: of its two keywords the one
\* earlier in the chain, written in lower case and second in the text.
C20_Witness ==
    \E i \in DOMAIN stderrOut :
        /\ stderrOut[i].chars = CharsOf("ERROR") \o <<" ">> \o <<"w", "a", "r", "n">>
        /\ stderrOut[i].sent.level = "warning"

\* The three messages of the signal branches (lines 705, 708, 711).
SignalMessages == { SignalMessage(w) : w \in {"SIGINT", "SIGHUP", "SIGTERM"} }

\* C21: a classified chunk that names SIGINT, SIGHUP or SIGTERM is sent as
\* an emergency notification with the fixed message of a signal, whatever
\* else the chunk contains.
C21_SignalAlwaysEmergency ==
    \A i \in DOMAIN stderrOut :
        (Classified(stderrOut[i]) /\ NamesSignal(stderrOut[i].chars)) =>
            /\ stderrOut[i].sent.level = "emergency"
            /\ stderrOut[i].sent.message \in SignalMessages

\* A classified chunk that contains none of the eight keywords and no
\* signal name.
NoKeyword(e) ==
    /\ Classified(e)
    /\ ~NamesSignal(e.chars)
    /\ \A k \in DOMAIN ChainKeywords :
          ~includes(toUpperCase(e.chars), CharsOf(ChainKeywords[k]))

AllWhiteSpace(s) == \A i \in DOMAIN s : s[i] \in WhiteSpace

NamedForForwarding(reqHeaders) ==
    LET single == IF "x-custom-auth-header" \in DOMAIN reqHeaders
                  THEN {reqHeaders["x-custom-auth-header"].v} ELSE {}
        parsed == IF "x-custom-auth-headers" \in DOMAIN reqHeaders
                  THEN JsonParse(reqHeaders["x-custom-auth-headers"].v)
                  ELSE [ok |-> FALSE, array |-> FALSE, v |-> <<>>]
    IN  single \cup (IF parsed.ok /\ parsed.array THEN Range(parsed.v) ELSE {})

\* The lower-cased names of the headers of a request that are to be
\* forwarded: the mcp- ones but the session id, authorization,
\* last-event-id, and the named ones.
Projectable(raw) ==
    LET reqHeaders == IncomingHeaders(raw)
    IN  { n \in DOMAIN reqHeaders :
            \/ StartsWithMcp(n) /\ n \notin ProxyOwnHeaders
            \/ n \in {"authorization", "last-event-id"}
            \/ n \in {ToLowerCase(k) : k \in NamedForForwarding(reqHeaders)} }

\* The last of the values a request gives under a name.
LastSent(raw, name) == ValuesOf(raw, name)[Len(ValuesOf(raw, name))]

\* C23: the header set projected from a request has exactly the
\* request's mcp- headers (the session id apart), its authorization and
\* last-event-id headers and the headers its meta-headers name, each with
\* the last value the request gives it; a malformed x-custom-auth-headers
\* names nothing and takes nothing from the rest.
C23_ProjectsExactlyWithLastValues ==
    projection.made =>
        /\ {ToLowerCase(k) : k \in DOMAIN projection.headers} = Projectable(projection.raw)
        /\ \A k \in DOMAIN projection.headers :
              projection.headers[k] = LastSent(projection.raw, ToLowerCase(k))

\* A query createTransport cannot build a transport from.
BadQuery(query) == query.transportType \notin TransportTypes \/ ~query.paramsOk

\* C24: a creation request with the credential whose transport kind is
\* unknown or whose url is malformed is answered 400 on each creation
\* route, and so is one whose executable cannot be resolved, once the
\* spawn has failed.
C24_BadParametersAnswered400 ==
    /\ listening =>
          \A route \in CreateRoutes, query \in Queries :
              BadQuery(query) =>
                  CreateResponse(route, GoodOrigin, ValidAuth, query).status = 400
    /\ \A c \in DOMAIN conns :
          (conns[c].pc = "failed" /\ conns[c].kind = "stdio") => conns[c].resp.status = 400

\* C25: when the upstream refuses the connection while a session is being
\* created, the handler answers 500 and writes the response once.
C25_UnreachableAnsweredOnce ==
    [][\A c \in ConnIds :
          UpstreamStartFailed(c, "ECONNREFUSED") =>
              conns'[c].resp = Resp("handler", 500, 1)]_vars

\* The status the upstream reported with an error of the start.
ReportedStatus(err) == IF err = "SseError401" THEN 401 ELSE 404

\* C26: when the upstream answers 401 or 404 while a session is being
\* created, the creating request is answered with that status, whatever
\* the creation route.
C26_UpstreamStatusPassedThrough ==
    [][\A c \in ConnIds, err \in {"SseError401", "SseError404"} :
          UpstreamStartFailed(c, err) =>
              conns'[c].resp.status = ReportedStatus(err)]_vars

\* The step leaves the entries of every session id outside S as they were,
\* in the three tables.
EntriesUntouched(S) ==
    \A sid \in Ids \ S :
        /\ (sid \in DOMAIN webAppTransports) = (sid \in DOMAIN webAppTransports')
        /\ (sid \in DOMAIN serverTransports) = (sid \in DOMAIN serverTransports')
        /\ (sid \in DOMAIN sessionHeaderHolders) = (sid \in DOMAIN sessionHeaderHolders')
        /\ sid \in DOMAIN webAppTransports => webAppTransports'[sid] = webAppTransports[sid]
        /\ sid \in DOMAIN serverTransports => serverTransports'[sid] = serverTransports[sid]
        /\ sid \in DOMAIN sessionHeaderHolders =>
              sessionHeaderHolders'[sid] = sessionHeaderHolders[sid]

\* The step leaves the transports and the header holder of every
\* connection outside C as they were.
ConnsUntouched(C) == \A d \in DOMAIN conns \ C : conns'[d] = conns[d]

C29_EnvPrecedence ==
    spawnEnv.made =>
        /\ DOMAIN spawnEnv.env =
              DOMAIN spawnEnv.defaults \cup DOMAIN spawnEnv.processEnv
                 \cup DOMAIN spawnEnv.queryEnv
        /\ \A k \in DOMAIN spawnEnv.env :
              spawnEnv.env[k] =
                 IF k \in DOMAIN spawnEnv.queryEnv THEN spawnEnv.queryEnv[k]
                 ELSE IF k \in DOMAIN spawnEnv.processEnv THEN spawnEnv.processEnv[k]
                 ELSE spawnEnv.defaults[k]

\* A name that all three sources give got the override, one that only the
\* defaults and the inherited environment give got the inherited value,
\* and one that only the defaults give got the default.
C29_Witness ==
    /\ spawnEnv.made
    /\ "FOO" \in DOMAIN spawnEnv.defaults \cap DOMAIN spawnEnv.processEnv
                    \cap DOMAIN spawnEnv.queryEnv
    /\ spawnEnv.env["FOO"] = "override"
    /\ "PATH" \in (DOMAIN spawnEnv.defaults \cap DOMAIN spawnEnv.processEnv)
                     \ DOMAIN spawnEnv.queryEnv
    /\ spawnEnv.defaults["PATH"] = "default"
    /\ spawnEnv.env["PATH"] = "inherited"
    /\ "BAR" \in DOMAIN spawnEnv.defaults
                    \ (DOMAIN spawnEnv.processEnv \cup DOMAIN spawnEnv.queryEnv)
    /\ spawnEnv.env["BAR"] = "default"

\* C30: with authentication enabled, the response to a request that does
\* not carry the valid credential never contains the session token,
\* whatever the route.
C30_TokenNotDisclosedWithoutCredential ==
    (~authDisabled /\ gateReq # NoReq /\ gateRes # NoRes /\ ~Authorized(gateReq.auth)) =>
        \A i \in DOMAIN gateRes.body : ~Shows(gateRes.body[i], sessionToken)

\* C31: with authentication enabled, a handler constructs an upstream
\* transport (spawning a child process or opening an upstream connection)
\* only for a request that carries the valid credential.
C31_NoTransportWithoutCredential ==
    (~authDisabled /\ gateReq # NoReq /\ gateRes # NoRes /\ gateRes.by = "handler"
        /\ gateRes.transport # "none")
    => Authorized(gateReq.auth)

\* A started upstream transport that no table refers to.
Unregistered(c) ==
    /\ c \in ConnIds
    /\ conns[c].server = "open"
    /\ \A sid \in DOMAIN serverTransports : serverTransports[sid] # c

\* C32: an upstream transport a creation request has started and that is
\* registered under no session id is eventually closed (or registered).
C32_StartedUpstreamRegisteredOrClosed ==
    \A c \in 1..MaxConns :
        Unregistered(c) ~> (c \in ConnIds /\ ~Unregistered(c))

\* A creation request that failed: its handler left through the catch block.
CreationFailed(c) == c \in ConnIds /\ conns[c].pc \in {"failed", "threw"}

\* Whether some table has an entry for connection c.
HasEntry(c) ==
    \/ \E sid \in DOMAIN webAppTransports : webAppTransports[sid] = c
    \/ \E sid \in DOMAIN serverTransports : serverTransports[sid] = c
    \/ \E sid \in DOMAIN sessionHeaderHolders : sessionHeaderHolders[sid] = c

\* C33: once a creation request has failed and been answered with the
\* error, no table holds an entry for its session.
C33_FailedCreationLeavesNoEntry ==
    \A c \in ConnIds :
        (CreationFailed(c) /\ conns[c].resp # Pending) => ~HasEntry(c)

\* C34: every request past the origin and credential checks is answered
\* exactly once, on each session route: the response is written once by
\* the handler, before or after its await.
C34_ExactlyOneResponse ==
    listening =>
        /\ \A sid \in Ids \cup {NoSid} :
              LET r == DeleteResponse(GoodOrigin, ValidAuth, sid)
              IN  r # Pending => r.writes = 1
        /\ \A ok \in BOOLEAN : TerminateResponse(ok).writes = 1
        /\ \A route \in LookupRoutes, sid \in Ids :
              ExistingResponse(route, GoodOrigin, ValidAuth, sid).writes = 1
        /\ \A route \in CreateRoutes, query \in Queries :
              LET r == CreateResponse(route, GoodOrigin, ValidAuth, query)
              IN  r # Pending => r.writes = 1
        /\ \A c \in ConnIds : conns[c].resp # Pending => conns[c].resp.writes = 1

\* C35: every message the upstream transport of a connection has emitted
\* since its start has been sent on the connection's browser-facing
\* transport, whether the relay was attached by then or not, as long as
\* the two transports are open.
C35_NothingLostBeforeRelay ==
    \A c \in ConnIds :
        (conns[c].server = "open" /\ conns[c].web = "open") =>
            \A i \in DOMAIN relayLog[c].fromServer :
                relayLog[c].fromServer[i] \in Range(conns[c].out)

\* A stdio session the MODULE_NOT_FOUND branch has torn down: it was sent
\* the branch's notification, and its browser-facing transport is closed.
FatallyTornDown(c) ==
    /\ c \in ConnIds
    /\ CommandNotFound \in Range(conns[c].out)
    /\ conns[c].web = "closed"

BesidesAccept(headers) == [k \in DOMAIN headers \ {"Accept"} |-> headers[k]]

\* C37: the upstream call that forwards a request's message is made with
\* the headers projected from that request, whatever other requests of the
\* session are in progress.
C37_CallCarriesOwnHeaders ==
    upstreamCall.made =>
        BesidesAccept(upstreamCall.read) = BesidesAccept(upstreamCall.of)

\* The upstream kinds reached over the network.
NetworkKinds == {"sse", "streamable-http"}

\* C38: the ids of sessionHeaderHolders are among those of
\* webAppTransports, which are those of serverTransports; a holder is
\* registered only for a network upstream; and a request of an existing
\* session leaves every connection that has no registered holder, and the
\* three tables, as they were.
C38_HoldersOnlyForNetworkSessions ==
    /\ [](/\ DOMAIN sessionHeaderHolders \subseteq DOMAIN webAppTransports
          /\ DOMAIN webAppTransports = DOMAIN serverTransports
          /\ \A sid \in DOMAIN sessionHeaderHolders :
                /\ sessionHeaderHolders[sid] = webAppTransports[sid]
                /\ conns[sessionHeaderHolders[sid]].kind \in NetworkKinds)
    /\ [][(\E route \in LookupRoutes : ExistingRequest(route, GoodOrigin, ValidAuth))
            => /\ \A c \in ConnIds :
                     conns[c].sid \notin DOMAIN sessionHeaderHolders
                        => conns'[c] = conns[c]
               /\ UNCHANGED <<webAppTransports, serverTransports,
                              sessionHeaderHolders>>]_vars

\* A stdio session, registered without a holder, next to a session with a
\* network upstream and its holder.
C38_Witness ==
    \E a, b \in ConnIds :
        /\ conns[a].kind = "stdio"
        /\ conns[a].sid \in DOMAIN webAppTransports \ DOMAIN sessionHeaderHolders
        /\ conns[b].kind \in NetworkKinds
        /\ conns[b].sid \in DOMAIN sessionHeaderHolders

=============================================================================
